---- MODULE Spec2Model ----
(***************************************************************************)
(* ClassTable: the week-range merge, the time-slot deduplication, the      *)
(* schedule generation and its conflict detection, and the parser of the   *)
(* course texts (week ranges, periods, lines, blocks and course records).  *)
(*                                                                         *)
(* Identifiers are TLA+ strings; a string the code builds by interpolation *)
(* is the sequence of its parts (the separators included), and a text the  *)
(* user typed is the sequence of its characters.  An optional              *)
(* value (T | undefined) is a sequence of at most one element.  A          *)
(* ScheduleItem carries ref, its position in the schedule array it was     *)
(* pushed to: the identity of the object, which Array.includes compares.   *)
(***************************************************************************)
EXTENDS Integers, Sequences, FiniteSets, TLC

VARIABLES pc, weekRanges, merged, timeSlots, deduped,
          courses, options, lastResult, schedule, activeTab,
          algSchedule, thrown, text, lines, parsed, fixedTimeSlots,
          teachers, coursesRaw, pending, now

\* this.schedule of the SchedulingAlgorithm and the exception its try block
\* caught, if any.
algVars == <<algSchedule, thrown>>

\* The text handed to a parser function, the lines it was composed of, and
\* what the function returned.
parserVars == <<text, lines, parsed>>

\* What the import preview holds after its automatic fix applied
\* deduplicateTimeSlots to the slots of a parsed course.
previewVars == <<fixedTimeSlots>>

\* The application: the stored teachers, the stored courses as they were
\* read or written (courses is what migrateCourseData makes of them), the
\* handlers waiting in their delay, and the clock Date.now() reads.
appVars == <<teachers, coursesRaw, pending, now>>

vars == <<pc, weekRanges, merged, timeSlots, deduped,
          courses, options, lastResult, schedule, activeTab,
          algSchedule, thrown, text, lines, parsed, fixedTimeSlots,
          teachers, coursesRaw, pending, now>>

----------------------------------------------------------------------------
(* Bounds *)

\* The last week of the ranges handed to mergeWeekRanges.
MaxWeek == 4

\* The last week of the week lists of slots.
MaxSlotWeek == 3

\* The number of handlers that may wait in their delay at one time.
MaxPending == 1

\* The number of handler calls of the application: each one runs at a later
\* millisecond than the one before.
MaxTime == 5

\* The length of the texts handed to parseWeekRange and to parseTimeSlots.
MaxTextLen == 5

----------------------------------------------------------------------------
(* Optional values and general helpers *)

Undefined == <<>>
Def(x) == <<x>>
IsDef(o) == Len(o) = 1
Val(o) == o[1]

Max(a, b) == IF a >= b THEN a ELSE b

\* A text (a string of the input or cut out of it) is the sequence of its
\* characters.
EmptyText == <<>>
B411 == <<"B", "4", "1", "1">>
A101 == <<"A", "1", "0", "1">>

\* The normalized week ranges up to a last week (start <= end).
RangesUpTo(last) ==
  {r \in [start : 1..last, end : 1..last] : r.start <= r.end}

\* The weeks a list of ranges covers.
WeeksOf(ranges) ==
  UNION {ranges[i].start..ranges[i].end : i \in 1..Len(ranges)}

----------------------------------------------------------------------------
(* courseTimeParser.ts: mergeWeekRanges *)

\* Array.prototype.sort with (a, b) => a.start - b.start: a stable sort.
RECURSIVE InsertByStart(_, _)
InsertByStart(sorted, range) ==
  IF sorted = <<>> THEN <<range>>
  ELSE IF sorted[Len(sorted)].start <= range.start
       THEN Append(sorted, range)
       ELSE Append(InsertByStart(SubSeq(sorted, 1, Len(sorted) - 1), range),
                   sorted[Len(sorted)])

RECURSIVE SortByStart(_)
SortByStart(ranges) ==
  IF ranges = <<>> THEN <<>>
  ELSE InsertByStart(SortByStart(SubSeq(ranges, 1, Len(ranges) - 1)),
                     ranges[Len(ranges)])

\* MergeStep had it coalesced overlapping ranges only, not adjacent ones.
MergeStepOverlapOnly(acc, range) ==
  IF Len(acc) = 0 THEN <<range>>
  ELSE LET last == acc[Len(acc)] IN
       IF range.start <= last.end
       THEN [acc EXCEPT ![Len(acc)].end = Max(last.end, range.end)]
       ELSE Append(acc, range)

\* One iteration of the loop over sorted.
MergeStep(acc, range) ==
  IF Len(acc) = 0 THEN <<range>>
  ELSE LET last == acc[Len(acc)] IN
       IF range.start <= last.end + 1
       THEN [acc EXCEPT ![Len(acc)].end = Max(last.end, range.end)]
       ELSE Append(acc, range)

RECURSIVE MergeLoop(_, _, _)
MergeLoop(sorted, i, acc) ==
  IF i > Len(sorted) THEN acc
  ELSE MergeLoop(sorted, i + 1, MergeStep(acc, sorted[i]))

mergeWeekRanges(ranges) ==
  IF Len(ranges) = 0 THEN <<>>
  ELSE MergeLoop(SortByStart(ranges), 1, <<>>)

----------------------------------------------------------------------------
(* courseTimeParser.ts: deduplicateTimeSlots *)

RECURSIVE Join(_, _)
Join(parts, sep) ==
  IF parts = <<>> THEN <<>>
  ELSE IF Len(parts) = 1 THEN <<parts[1]>>
  ELSE <<parts[1], sep>> \o Join(Tail(parts), sep)

\* location || '': undefined and the empty string both give ''.
OrEmpty(location) ==
  IF IsDef(location) /\ Val(location) # EmptyText THEN Val(location) ELSE EmptyText

\* SlotKey had it left the location out of the key.
SlotKeyNoLocation(slot) ==
  <<ToString(slot.dayOfWeek), "-">> \o Join(slot.timeSlotIds, ",")

\* SlotKey had it sorted the period ids before joining them.
SlotKeySortedIds(slot) ==
  LET ids == slot.timeSlotIds
      sortedIds == CHOOSE p \in [1..Len(ids) -> {ids[k] : k \in 1..Len(ids)}] :
                     \A v \in {ids[k] : k \in 1..Len(ids)} :
                       Cardinality({k \in 1..Len(ids) : p[k] = v}) =
                         Cardinality({k \in 1..Len(ids) : ids[k] = v})
  IN <<ToString(slot.dayOfWeek), "-">> \o Join(sortedIds, ",") \o
     <<"-", OrEmpty(slot.location)>>

\* `${slot.dayOfWeek}-${slot.timeSlotIds.join(',')}-${slot.location || ''}`
SlotKey(slot) ==
  <<ToString(slot.dayOfWeek), "-">> \o Join(slot.timeSlotIds, ",") \o
  <<"-", OrEmpty(slot.location)>>

\* slot.weeks && slot.weeks.length > 0
HasWeeks(slot) == IsDef(slot.weeks) /\ Len(Val(slot.weeks)) > 0

MapHas(slotMap, key) == \E i \in 1..Len(slotMap) : slotMap[i].key = key
MapIndex(slotMap, key) == CHOOSE i \in 1..Len(slotMap) : slotMap[i].key = key

\* DedupStep had it concatenated the week lists of a shared key without
\* merging them.
DedupStepConcat(slotMap, slot) ==
  LET key == SlotKey(slot) IN
  IF MapHas(slotMap, key)
  THEN LET i == MapIndex(slotMap, key)
           existingSlot == slotMap[i].value
       IN IF HasWeeks(slot)
          THEN IF HasWeeks(existingSlot)
               THEN [slotMap EXCEPT ![i].value.weeks =
                       Def(Val(existingSlot.weeks) \o Val(slot.weeks))]
               ELSE [slotMap EXCEPT ![i].value.weeks = slot.weeks]
          ELSE slotMap
  ELSE Append(slotMap, [key |-> key, value |-> slot])

\* One iteration of the loop over timeSlots; slotMap is the Map in insertion
\* order.
DedupStep(slotMap, slot) ==
  LET key == SlotKey(slot) IN
  IF MapHas(slotMap, key)
  THEN LET i == MapIndex(slotMap, key)
           existingSlot == slotMap[i].value
       IN IF HasWeeks(slot)
          THEN IF HasWeeks(existingSlot)
               THEN [slotMap EXCEPT ![i].value.weeks =
                       Def(mergeWeekRanges(Val(existingSlot.weeks) \o
                                           Val(slot.weeks)))]
               ELSE [slotMap EXCEPT ![i].value.weeks = slot.weeks]
          ELSE slotMap
  ELSE Append(slotMap, [key |-> key, value |-> slot])

RECURSIVE DedupLoop(_, _, _)
DedupLoop(slots, i, slotMap) ==
  IF i > Len(slots) THEN slotMap
  ELSE DedupLoop(slots, i + 1, DedupStep(slotMap, slots[i]))

deduplicateTimeSlots(slots) ==
  LET slotMap == DedupLoop(slots, 1, <<>>)
  IN [i \in 1..Len(slotMap) |-> slotMap[i].value]

----------------------------------------------------------------------------
(* courseTimeParser.ts: what a call of deduplicateTimeSlots writes to the  *)
(* objects of its argument                                                 *)

\* An object reached through the argument is <<k, 0>>, slot k of the
\* array, or <<k, j>>, range j of the weeks of slot k; NewObject is an object
\* the call created.  A range carries obj, the object it is.
NewObject == <<0, 0>>

\* The ranges of slot.weeks of slot k of the argument.
RangesOfArgument(weeks, k) ==
  [j \in 1..Len(weeks) |->
     [start |-> weeks[j].start, end |-> weeks[j].end, obj |-> <<k, j>>]]

\* The values of a list of ranges.
RangeValues(ranges) ==
  [j \in 1..Len(ranges) |-> [start |-> ranges[j].start, end |-> ranges[j].end]]

\* merged.push(range): the range object itself put in merged.
SameRange(range) == range

\* { ...range }: a new object with the fields of range.
CopyOfRange(range) == [range EXCEPT !.obj = NewObject]

\* slotMap.set(key, slot): the slot object itself stored in the map.
SameSlot(k) == <<k, 0>>

\* { ...slot, weeks: ... }: the object stored for slot k of the argument is
\* a new object.
CopyOfSlot(k) == NewObject

\* last.end = end, written to the argument when last is one of its ranges.
WriteEnd(argument, obj, end) ==
  IF obj = NewObject THEN argument
  ELSE [argument EXCEPT ![obj[1]].weeks = <<[@[1] EXCEPT ![obj[2]].end = end]>>]

\* existingSlot.weeks = weeks, written to the argument when existingSlot is
\* one of its slots.
WriteWeeks(argument, obj, weeks) ==
  IF obj = NewObject THEN argument
  ELSE [argument EXCEPT ![obj[1]].weeks = Def(weeks)]

\* The loop of mergeWeekRanges over sorted, an array of range objects:
\* <<merged, argument>>.
RECURSIVE MergeLoopOn(_, _, _, _)
MergeLoopOn(sorted, i, acc, argument) ==
  IF i > Len(sorted) THEN <<acc, argument>>
  ELSE LET range == sorted[i]
           next == MergeStep(acc, CopyOfRange(range))
       IN IF Len(acc) > 0 /\ range.start <= acc[Len(acc)].end + 1
          THEN MergeLoopOn(sorted, i + 1, next,
                           WriteEnd(argument, acc[Len(acc)].obj,
                                    next[Len(next)].end))
          ELSE MergeLoopOn(sorted, i + 1, next, argument)

\* mergeWeekRanges(allWeeks), allWeeks a new array ([...a, ...b]) of range
\* objects: sort() reorders that array, not an array of the argument.
mergeWeekRangesOn(allWeeks, argument) ==
  IF Len(allWeeks) = 0 THEN <<<<>>, argument>>
  ELSE MergeLoopOn(SortByStart(allWeeks), 1, <<>>, argument)

\* One iteration of the loop over timeSlots: st.map holds for each key the
\* object stored (obj) and its weeks, st.argument the argument as it is.
ArgumentStep(st, k) ==
  LET slot == st.argument[k]
      key == SlotKey(slot)
  IN IF MapHas(st.map, key)
     THEN LET i == MapIndex(st.map, key)
              existingSlot == st.map[i]
          IN IF HasWeeks(slot)
             THEN IF HasWeeks(existingSlot)
                  THEN LET allWeeks ==
                             Val(existingSlot.weeks) \o
                             RangesOfArgument(Val(slot.weeks), k)
                           r == mergeWeekRangesOn(allWeeks, st.argument)
                       IN [map |-> [st.map EXCEPT ![i].weeks = Def(r[1])],
                           argument |-> WriteWeeks(r[2], existingSlot.obj,
                                                   RangeValues(r[1]))]
                  ELSE [map |-> [st.map EXCEPT ![i].weeks =
                                   Def(RangesOfArgument(Val(slot.weeks), k))],
                        argument |-> WriteWeeks(st.argument, existingSlot.obj,
                                                Val(slot.weeks))]
             ELSE st
     ELSE [map |-> Append(st.map,
                     [key |-> key, obj |-> CopyOfSlot(k),
                      weeks |-> IF IsDef(slot.weeks)
                                THEN Def(RangesOfArgument(Val(slot.weeks), k))
                                ELSE Undefined]),
           argument |-> st.argument]

RECURSIVE ArgumentLoop(_, _)
ArgumentLoop(st, k) ==
  IF k > Len(st.argument) THEN st
  ELSE ArgumentLoop(ArgumentStep(st, k), k + 1)

\* The array handed to deduplicateTimeSlots as it is when the call returns.
ArgumentAfter(slots) ==
  ArgumentLoop([map |-> <<>>, argument |-> slots], 1).argument

----------------------------------------------------------------------------
(* courseTimeParser.ts: isWeekInRanges *)

\* isWeekInRanges had it excluded the first week of a range.
isWeekInRangesAfterStart(week, ranges) ==
  IF ~IsDef(ranges) \/ Len(Val(ranges)) = 0 THEN TRUE
  ELSE \E i \in 1..Len(Val(ranges)) :
         week > Val(ranges)[i].start /\ week <= Val(ranges)[i].end

isWeekInRanges(week, ranges) ==
  IF ~IsDef(ranges) \/ Len(Val(ranges)) = 0 THEN TRUE
  ELSE \E i \in 1..Len(Val(ranges)) :
         week >= Val(ranges)[i].start /\ week <= Val(ranges)[i].end

----------------------------------------------------------------------------
(* courseTimeParser.ts: the characters of a text *)

\* The characters the regular expressions name.  The Chinese characters
\* are written by their pinyin: Zhou is the character of "week", Xing Qi
\* the two of "weekday", Di and Jie the two that frame a period range,
\* WideComma the full-width comma.
Zhou == "zhou"
Xing == "xing"
Qi == "qi"
Di == "di"
Jie == "jie"
Dash == "-"
EnDash == "en-dash"
Comma == ","
WideComma == "wide-comma"
Open == "("
Close == ")"
Space == " "
Tab == "TAB"
LF == "LF"
CR == "CR"

\* [yi er san si wu liu ri]: the characters of the weekdays, Monday first.
DayChars == <<"yi", "er", "san", "si", "wu", "liu", "ri">>
DayCharSet == {DayChars[i] : i \in 1..Len(DayChars)}

\* \d
DigitChars == <<"0", "1", "2", "3", "4", "5", "6", "7", "8", "9">>
IsDigit(c) == \E i \in 1..Len(DigitChars) : DigitChars[i] = c
DigitValue(c) == (CHOOSE i \in 1..Len(DigitChars) : DigitChars[i] = c) - 1

\* \s, and the characters String.prototype.trim removes.
WhiteSpace == {Space, Tab, LF, CR}

\* The character at position p; the empty string past either end.
At(t, p) == IF p \in 1..Len(t) THEN t[p] ELSE ""

MinOf(S) == CHOOSE x \in S : \A y \in S : x <= y

\* The position after the run of digits that starts at p (\d+ and \d* are
\* greedy).
RECURSIVE DigitsEnd(_, _)
DigitsEnd(t, p) == IF IsDigit(At(t, p)) THEN DigitsEnd(t, p + 1) ELSE p

\* The position after the run of white space that starts at p (\s*).
RECURSIVE SpaceEnd(_, _)
SpaceEnd(t, p) == IF At(t, p) \in WhiteSpace THEN SpaceEnd(t, p + 1) ELSE p

\* parseInt of a run of digits.
RECURSIVE parseInt(_)
parseInt(digits) ==
  IF digits = <<>> THEN 0
  ELSE 10 * parseInt(SubSeq(digits, 1, Len(digits) - 1)) +
       DigitValue(digits[Len(digits)])

\* String.prototype.trim
RECURSIVE TrimStart(_)
TrimStart(t) ==
  IF t # <<>> /\ t[1] \in WhiteSpace THEN TrimStart(Tail(t)) ELSE t

RECURSIVE TrimEnd(_)
TrimEnd(t) ==
  IF t # <<>> /\ t[Len(t)] \in WhiteSpace
  THEN TrimEnd(SubSeq(t, 1, Len(t) - 1)) ELSE t

Trim(t) == TrimEnd(TrimStart(t))

\* null
Null == <<>>

----------------------------------------------------------------------------
(* courseTimeParser.ts: parseWeekRange, parseTimeSlots, parseLocation,     *)
(* parseDay                                                                 *)

\* DAY_MAP: the weekday of "xing qi X", of "zhou X" and of "X".
DAY_MAP ==
  [key \in {<<Xing, Qi, c>> : c \in DayCharSet} \cup
           {<<Zhou, c>> : c \in DayCharSet} \cup
           {<<c>> : c \in DayCharSet} |->
     CHOOSE i \in 1..Len(DayChars) : DayChars[i] = key[Len(key)]]

\* parseWeekRange had it put the smaller number first.
parseWeekRangeOrdered(weekStr) ==
  LET ps == {p \in 1..Len(weekStr) : IsDigit(weekStr[p])} IN
  IF ps = {} THEN Null
  ELSE LET p == MinOf(ps)
           e1 == DigitsEnd(weekStr, p)
           hasEnd == At(weekStr, e1) = Dash /\ IsDigit(At(weekStr, e1 + 1))
           start == parseInt(SubSeq(weekStr, p, e1 - 1))
           end == IF hasEnd
                  THEN parseInt(SubSeq(weekStr, e1 + 1,
                                       DigitsEnd(weekStr, e1 + 1) - 1))
                  ELSE start
       IN Def([start |-> IF start <= end THEN start ELSE end,
               end |-> Max(start, end)])

\* weekStr.match(/(\d+)(?:-(\d+))?zhou?/): the match starts at the first
\* digit of the text; null without a digit.
parseWeekRange(weekStr) ==
  LET ps == {p \in 1..Len(weekStr) : IsDigit(weekStr[p])} IN
  IF ps = {} THEN Null
  ELSE LET p == MinOf(ps)
           e1 == DigitsEnd(weekStr, p)
           hasEnd == At(weekStr, e1) = Dash /\ IsDigit(At(weekStr, e1 + 1))
           start == parseInt(SubSeq(weekStr, p, e1 - 1))
           end == IF hasEnd
                  THEN parseInt(SubSeq(weekStr, e1 + 1,
                                       DigitsEnd(weekStr, e1 + 1) - 1))
                  ELSE start
       IN Def([start |-> start, end |-> end])

\* di \d+ (?:-\d+)? jie matched at position p: its two groups and the
\* position after the match, or null.
PeriodMatchAt(t, p) ==
  IF At(t, p) = Di /\ IsDigit(At(t, p + 1))
  THEN LET e1 == DigitsEnd(t, p + 1)
           e2 == DigitsEnd(t, e1 + 1)
       IN IF At(t, e1) = Jie
          THEN Def([first |-> SubSeq(t, p + 1, e1 - 1), second |-> Undefined,
                    stop |-> e1 + 1])
          ELSE IF At(t, e1) = Dash /\ e2 > e1 + 1 /\ At(t, e2) = Jie
               THEN Def([first |-> SubSeq(t, p + 1, e1 - 1),
                         second |-> Def(SubSeq(t, e1 + 1, e2 - 1)),
                         stop |-> e2 + 1])
               ELSE Null
  ELSE Null

\* for (let i = start; i <= end; i++) slots.push(i.toString())
RECURSIVE PushIds(_, _)
PushIds(i, end) ==
  IF i > end THEN <<>> ELSE <<ToString(i)>> \o PushIds(i + 1, end)

\* parseTimeSlots had it returned the first period only.
parseTimeSlotsFirstOnly(timeStr) ==
  LET ps == {p \in 1..Len(timeStr) : IsDef(PeriodMatchAt(timeStr, p))} IN
  IF ps = {} THEN <<>>
  ELSE LET match == Val(PeriodMatchAt(timeStr, MinOf(ps)))
           start == parseInt(match.first)
       IN PushIds(start, start)

\* timeStr.match(/di(\d+)(?:-(\d+))?jie/): the leftmost match.
parseTimeSlots(timeStr) ==
  LET ps == {p \in 1..Len(timeStr) : IsDef(PeriodMatchAt(timeStr, p))} IN
  IF ps = {} THEN <<>>
  ELSE LET match == Val(PeriodMatchAt(timeStr, MinOf(ps)))
           start == parseInt(match.first)
           end == IF IsDef(match.second) THEN parseInt(Val(match.second))
                  ELSE start
       IN PushIds(start, end)

\* /\(([^)]+)\)/ matched at position p: the position of the closing
\* parenthesis, or null.
LocationMatchAt(t, p) ==
  IF /\ At(t, p) = Open
     /\ p + 1 <= Len(t) /\ t[p + 1] # Close
     /\ \E q \in (p + 2)..Len(t) : t[q] = Close
  THEN Def(MinOf({q \in (p + 2)..Len(t) : t[q] = Close}))
  ELSE Null

\* The leftmost match of /\(([^)]+)\)/: <<position, position of the
\* closing parenthesis>>, or null.
LocationMatch(t) ==
  LET ps == {p \in 1..Len(t) : IsDef(LocationMatchAt(t, p))} IN
  IF ps = {} THEN Null
  ELSE Def(<<MinOf(ps), Val(LocationMatchAt(t, MinOf(ps)))>>)

parseLocation(t) ==
  IF IsDef(LocationMatch(t))
  THEN Def(SubSeq(t, Val(LocationMatch(t))[1] + 1, Val(LocationMatch(t))[2] - 1))
  ELSE Undefined

\* DAY_MAP[dayStr] || null
parseDay(dayStr) ==
  IF dayStr \in DOMAIN DAY_MAP /\ DAY_MAP[dayStr] # 0
  THEN Def(DAY_MAP[dayStr]) ELSE Null

----------------------------------------------------------------------------
(* courseTimeParser.ts: parseTimeLine, parseCourseTime *)

\* trimmedLine.match(/^(\d+(?:-\d+)?zhou?)[wide-comma,]/): the position of
\* the comma that ends the match, or null.
WeekPrefixMatch(t) ==
  IF IsDigit(At(t, 1))
  THEN LET e1 == DigitsEnd(t, 1)
           e2 == IF At(t, e1) = Dash /\ IsDigit(At(t, e1 + 1))
                 THEN DigitsEnd(t, e1 + 1) ELSE e1
           e3 == IF At(t, e2) = Zhou THEN e2 + 1 ELSE e2
       IN IF At(t, e3) \in {WideComma, Comma} THEN Def(e3) ELSE Null
  ELSE Null

\* timeContent.replace(/\([^)]+\)/, ''): the text without the first match.
RemoveLocation(t) ==
  IF IsDef(LocationMatch(t))
  THEN SubSeq(t, 1, Val(LocationMatch(t))[1] - 1) \o
       SubSeq(t, Val(LocationMatch(t))[2] + 1, Len(t))
  ELSE t

\* The time content of a trimmed line: the week prefix and the first
\* parenthesized location taken out, the rest trimmed.
TimeContent(trimmedLine) ==
  LET weekMatch == WeekPrefixMatch(trimmedLine)
      location == parseLocation(trimmedLine)
      noPrefix == IF IsDef(weekMatch)
                  THEN SubSeq(trimmedLine, Val(weekMatch) + 1, Len(trimmedLine))
                  ELSE trimmedLine
      noLocation == IF IsDef(location) THEN RemoveLocation(noPrefix)
                    ELSE noPrefix
  IN Trim(noLocation)

\* (xing qi [yi..ri] | zhou [yi..ri]) matched at position p: the length of
\* the match, 0 without a match.
DayTokenAt(t, p) ==
  IF At(t, p) = Xing /\ At(t, p + 1) = Qi /\ At(t, p + 2) \in DayCharSet
  THEN 3
  ELSE IF At(t, p) = Zhou /\ At(t, p + 1) \in DayCharSet THEN 2 ELSE 0

\* The regular expression of the loop matched at position p: the position
\* after the match, or null.
OccurrenceAt(t, p) ==
  IF DayTokenAt(t, p) > 0
  THEN LET period == PeriodMatchAt(t, SpaceEnd(t, p + DayTokenAt(t, p)))
       IN IF IsDef(period) THEN Def(Val(period).stop) ELSE Null
  ELSE Null

\* The body of the while loop for one match: the slots with the slot of
\* fullMatch pushed, unless a continue skipped it.
PushOccurrence(slots, fullMatch, weeks, location) ==
  LET ps == {p \in 1..Len(fullMatch) : DayTokenAt(fullMatch, p) > 0} IN
  IF ps = {} THEN slots
  ELSE LET p == MinOf(ps)
           dayOfWeek == parseDay(SubSeq(fullMatch, p,
                                        p + DayTokenAt(fullMatch, p) - 1))
           timeSlotIds == parseTimeSlots(fullMatch)
       IN IF ~IsDef(dayOfWeek) THEN slots
          ELSE IF Len(timeSlotIds) = 0 THEN slots
          ELSE Append(slots,
                 [dayOfWeek |-> Val(dayOfWeek),
                  timeSlotIds |-> timeSlotIds,
                  weeks |-> IF IsDef(weeks) THEN Def(<<Val(weeks)>>)
                            ELSE Undefined,
                  location |-> location])

\* while ((match = regex.exec(timeContent)) !== null): from is
\* regex.lastIndex.
RECURSIVE ExecLoop(_, _, _, _, _)
ExecLoop(timeContent, from, weeks, location, slots) ==
  LET ps == {p \in from..Len(timeContent) :
               IsDef(OccurrenceAt(timeContent, p))} IN
  IF ps = {} THEN slots
  ELSE LET p == MinOf(ps)
           stop == Val(OccurrenceAt(timeContent, p))
       IN ExecLoop(timeContent, stop, weeks, location,
                   PushOccurrence(slots, SubSeq(timeContent, p, stop - 1),
                                  weeks, location))

\* parseTimeLine had it scanned the trimmed line itself.
parseTimeLineWholeLine(line) ==
  LET trimmedLine == Trim(line)
      weekMatch == WeekPrefixMatch(trimmedLine)
      weeks == IF IsDef(weekMatch)
               THEN parseWeekRange(SubSeq(trimmedLine, 1, Val(weekMatch) - 1))
               ELSE Null
      location == parseLocation(trimmedLine)
  IN [weeks |-> weeks,
      timeSlots |-> ExecLoop(trimmedLine, 1, weeks, location, <<>>),
      location |-> location]

parseTimeLine(line) ==
  LET trimmedLine == Trim(line)
      weekMatch == WeekPrefixMatch(trimmedLine)
      weeks == IF IsDef(weekMatch)
               THEN parseWeekRange(SubSeq(trimmedLine, 1, Val(weekMatch) - 1))
               ELSE Null
      location == parseLocation(trimmedLine)
  IN [weeks |-> weeks,
      timeSlots |-> ExecLoop(TimeContent(trimmedLine), 1, weeks, location,
                             <<>>),
      location |-> location]

\* timeText.split(/\n|\r\n/): cur is the line being read.
RECURSIVE SplitLines(_, _, _)
SplitLines(t, p, cur) ==
  IF p > Len(t) THEN <<cur>>
  ELSE IF t[p] = LF THEN <<cur>> \o SplitLines(t, p + 1, <<>>)
  ELSE IF t[p] = CR /\ At(t, p + 1) = LF
       THEN <<cur>> \o SplitLines(t, p + 2, <<>>)
       ELSE SplitLines(t, p + 1, Append(cur, t[p]))

\* .filter(line => line.trim() !== '')
RECURSIVE NonBlank(_)
NonBlank(ls) ==
  IF ls = <<>> THEN <<>>
  ELSE (IF Trim(ls[1]) # <<>> THEN <<ls[1]>> ELSE <<>>) \o NonBlank(Tail(ls))

\* for (const line of lines) allTimeSlots.push(...parseTimeLine(line).timeSlots)
RECURSIVE LineLoop(_, _)
LineLoop(ls, allTimeSlots) ==
  IF ls = <<>> THEN allTimeSlots
  ELSE LineLoop(Tail(ls), allTimeSlots \o parseTimeLine(ls[1]).timeSlots)

\* parseCourseTime had it returned the slots of the lines as they are.
parseCourseTimeNoDedup(timeText) ==
  IF timeText = <<>> \/ Trim(timeText) = <<>> THEN <<>>
  ELSE LineLoop(NonBlank(SplitLines(timeText, 1, <<>>)), <<>>)

parseCourseTime(timeText) ==
  IF timeText = <<>> \/ Trim(timeText) = <<>> THEN <<>>
  ELSE deduplicateTimeSlots(
         LineLoop(NonBlank(SplitLines(timeText, 1, <<>>)), <<>>))

----------------------------------------------------------------------------
(* courseTimeParser.ts: parseCourseInfo *)

\* String.prototype.split at every character of seps: cur is the piece
\* being read.
RECURSIVE SplitOn(_, _, _, _)
SplitOn(t, p, cur, seps) ==
  IF p > Len(t) THEN <<cur>>
  ELSE IF t[p] \in seps THEN <<cur>> \o SplitOn(t, p + 1, <<>>, seps)
  ELSE SplitOn(t, p + 1, Append(cur, t[p]), seps)

\* .map(s => s.trim())
MapTrim(ls) == [i \in 1..Len(ls) |-> Trim(ls[i])]

\* .filter(s => s !== '')
RECURSIVE NonEmpty(_)
NonEmpty(ls) ==
  IF ls = <<>> THEN <<>>
  ELSE (IF ls[1] # EmptyText THEN <<ls[1]>> ELSE <<>>) \o NonEmpty(Tail(ls))

\* Array.prototype.join: the texts with sep between them.
RECURSIVE JoinTexts(_, _)
JoinTexts(ls, sep) ==
  IF ls = <<>> THEN <<>>
  ELSE IF Len(ls) = 1 THEN ls[1]
  ELSE ls[1] \o sep \o JoinTexts(Tail(ls), sep)

\* field.split(/[,wide-comma]/).map(t => t.trim()).filter(t => t !== '')
SplitNames(field) ==
  NonEmpty(MapTrim(SplitOn(field, 1, <<>>, {Comma, WideComma})))

\* /^\d+$/.test(field)
IsNumber(field) ==
  field # <<>> /\ \A k \in 1..Len(field) : IsDigit(field[k])

\* /\d+[-en-dash]?\d*zhou|xing qi [yi..ri]|di\d+/.test(line)
HasTimeKeyword(line) ==
  \E p \in 1..Len(line) :
    \/ /\ IsDigit(line[p])
       /\ LET e1 == DigitsEnd(line, p) IN
          \/ At(line, e1) = Zhou
          \/ /\ At(line, e1) \in {Dash, EnDash}
             /\ At(line, DigitsEnd(line, e1 + 1)) = Zhou
    \/ line[p] = Xing /\ At(line, p + 1) = Qi /\ At(line, p + 2) \in DayCharSet
    \/ line[p] = Di /\ IsDigit(At(line, p + 1))

\* The texts the code puts in place of an empty field.
UnknownTeacher == <<"unknown-teacher">>
UnknownDepartment == <<"unknown-department">>
UnknownCampus == <<"unknown-campus">>

\* The loop over allLines[1..]: the lines without a tab are pushed; the
\* first line with a tab is pushed when it holds a time keyword, and ends
\* the loop.
RECURSIVE ContinuationLoop(_, _, _)
ContinuationLoop(allLines, i, timeTextLines) ==
  IF i > Len(allLines) THEN timeTextLines
  ELSE IF \E k \in 1..Len(allLines[i]) : allLines[i][k] = Tab
       THEN IF HasTimeKeyword(allLines[i])
            THEN Append(timeTextLines, allLines[i])
            ELSE timeTextLines
       ELSE ContinuationLoop(allLines, i + 1,
                             Append(timeTextLines, allLines[i]))

\* The fields of the first line read in one of the three ways; f is
\* firstLineFields, f[1] its first element.
CreditsFirst(f) ==
  [name |-> f[1],
   credits |-> IF parseInt(f[2]) = 0 THEN Undefined ELSE Def(parseInt(f[2])),
   department |-> f[4],
   teachers |-> SplitNames(f[5]),
   campus |-> f[6]]

TeacherFirst(f) ==
  [name |-> f[1],
   teachers |-> SplitNames(f[2]),
   department |-> f[3],
   campus |-> f[4],
   credits |-> LET ps == {p \in 1..Len(f[6]) : IsDigit(f[6][p])} IN
               IF Len(f) > 5 /\ ps # {}
               THEN Def(parseInt(SubSeq(f[6], MinOf(ps),
                                        DigitsEnd(f[6], MinOf(ps)) - 1)))
               ELSE Undefined]

SimpleFormat(f) ==
  [name |-> f[1],
   teachers |-> IF f[2] # EmptyText THEN SplitNames(f[2])
                ELSE <<UnknownTeacher>>,
   department |-> IF f[3] # EmptyText THEN f[3] ELSE UnknownDepartment,
   campus |-> IF f[4] # EmptyText THEN f[4] ELSE UnknownCampus,
   credits |-> Undefined]

\* The result of parseCourseInfo: the error it raised, or the course it
\* returned.
Raised(message) == [raised |-> Def(message), course |-> Undefined]
Returned(course) == [raised |-> Undefined, course |-> Def(course)]

parseCourseInfo(courseText) ==
  LET allLines == NonEmpty(MapTrim(SplitLines(courseText, 1, <<>>))) IN
  IF Len(allLines) = 0 THEN Raised("course info is empty")
  ELSE
    LET firstLineFields == MapTrim(SplitOn(allLines[1], 1, <<>>, {Tab})) IN
    IF Len(firstLineFields) < 4 THEN Raised("course info is malformed")
    ELSE
      LET head == IF Len(firstLineFields) >= 6
                  THEN IF IsNumber(firstLineFields[2])
                       THEN CreditsFirst(firstLineFields)
                       ELSE TeacherFirst(firstLineFields)
                  ELSE SimpleFormat(firstLineFields)
          firstTimeText ==
            IF Len(firstLineFields) > 6
            THEN <<JoinTexts(SubSeq(firstLineFields, 7, Len(firstLineFields)),
                             <<Tab>>)>>
            ELSE <<>>
          timeTextLines == ContinuationLoop(allLines, 2, firstTimeText)
          timeText == JoinTexts(timeTextLines, <<LF>>)
      IN Returned([name |-> head.name,
                   teachers |-> head.teachers,
                   department |-> head.department,
                   campus |-> head.campus,
                   credits |-> head.credits,
                   timeSlots |-> parseCourseTime(timeText)])

----------------------------------------------------------------------------
(* schedulingAlgorithm.ts: SchedulingAlgorithm *)

\* if (options.selectedWeek): undefined and 0 are falsy.
Truthy(n) == IsDef(n) /\ Val(n) # 0

NoOptions == [selectedWeek |-> Undefined, weekRange |-> Undefined]

hasWeekRangeOverlap(timeSlotWeeks, targetRange) ==
  \E i \in 1..Len(timeSlotWeeks) :
    /\ timeSlotWeeks[i].start <= targetRange.end
    /\ timeSlotWeeks[i].end >= targetRange.start

getWeekSuffix(weeks, opts) ==
  IF Truthy(opts.selectedWeek) THEN <<"w", ToString(Val(opts.selectedWeek))>>
  ELSE IF IsDef(weeks) /\ Len(Val(weeks)) > 0
       THEN <<"w", ToString(Val(weeks)[1].start), "-",
              ToString(Val(weeks)[1].end)>>
       ELSE <<"all">>

\* The filter at the head of the loop over course.fixedTimeSlots: TRUE when
\* the slot is skipped (continue).
SlotSkipped(fixedSlot, opts) ==
  IF Truthy(opts.selectedWeek)
  THEN ~isWeekInRanges(Val(opts.selectedWeek), fixedSlot.weeks)
  ELSE IF IsDef(opts.weekRange)
       THEN /\ IsDef(fixedSlot.weeks)
            /\ ~hasWeekRangeOverlap(Val(fixedSlot.weeks), Val(opts.weekRange))
       ELSE FALSE

\* ItemLocation had it always taken the course's location.
ItemLocationOfCourse(fixedSlot, course) == course.location

\* fixedSlot.location || course.location
ItemLocation(fixedSlot, course) ==
  IF IsDef(fixedSlot.location) /\ Val(fixedSlot.location) # EmptyText
  THEN fixedSlot.location
  ELSE course.location

\* The ScheduleItem pushed for one period id; ref is its index in
\* this.schedule.
NewItem(course, fixedSlot, timeSlotId, opts, ref) ==
  [ref |-> ref,
   id |-> <<course.id, "-", ToString(fixedSlot.dayOfWeek), "-", timeSlotId,
            "-">> \o getWeekSuffix(fixedSlot.weeks, opts),
   courseId |-> course.id,
   teacherId |-> course.teacherId,
   timeSlotId |-> timeSlotId,
   dayOfWeek |-> fixedSlot.dayOfWeek,
   weeks |-> fixedSlot.weeks,
   location |-> ItemLocation(fixedSlot, course)]

RECURSIVE PushPeriods(_, _, _, _, _)
PushPeriods(sched, course, fixedSlot, k, opts) ==
  IF k > Len(fixedSlot.timeSlotIds) THEN sched
  ELSE PushPeriods(
         Append(sched, NewItem(course, fixedSlot, fixedSlot.timeSlotIds[k],
                               opts, Len(sched) + 1)),
         course, fixedSlot, k + 1, opts)

RECURSIVE SlotLoop(_, _, _, _)
SlotLoop(sched, course, s, opts) ==
  IF s > Len(course.fixedTimeSlots) THEN sched
  ELSE LET fixedSlot == course.fixedTimeSlots[s] IN
       IF SlotSkipped(fixedSlot, opts)
       THEN SlotLoop(sched, course, s + 1, opts)
       ELSE SlotLoop(PushPeriods(sched, course, fixedSlot, 1, opts),
                     course, s + 1, opts)

scheduleForCourse(sched, course, opts) == SlotLoop(sched, course, 1, opts)

RECURSIVE CourseLoop(_, _, _, _)
CourseLoop(sched, cs, c, opts) ==
  IF c > Len(cs) THEN sched
  ELSE CourseLoop(scheduleForCourse(sched, cs[c], opts), cs, c + 1, opts)

hasWeekOverlap(weeks1, weeks2) ==
  IF \/ ~IsDef(weeks1) \/ ~IsDef(weeks2)
     \/ Len(Val(weeks1)) = 0 \/ Len(Val(weeks2)) = 0
  THEN TRUE
  ELSE \E i \in 1..Len(Val(weeks1)) : \E j \in 1..Len(Val(weeks2)) :
         /\ Val(weeks1)[i].start <= Val(weeks2)[j].end
         /\ Val(weeks1)[i].end >= Val(weeks2)[j].start

Includes(list, item) == \E k \in 1..Len(list) : list[k] = item

\* The inner loop over j > i: <<conflicting, hasConflict>>.
RECURSIVE InnerLoop(_, _, _, _, _)
InnerLoop(items, i, j, conflicting, hasConflict) ==
  IF j > Len(items) THEN <<conflicting, hasConflict>>
  ELSE IF hasWeekOverlap(items[i].weeks, items[j].weeks)
       THEN InnerLoop(items, i, j + 1,
                      IF Includes(conflicting, items[j]) THEN conflicting
                      ELSE Append(conflicting, items[j]),
                      TRUE)
       ELSE InnerLoop(items, i, j + 1, conflicting, hasConflict)

RECURSIVE OuterLoop(_, _, _)
OuterLoop(items, i, conflicting) ==
  IF i > Len(items) THEN conflicting
  ELSE LET r == InnerLoop(items, i, i + 1, conflicting, FALSE) IN
       OuterLoop(items, i + 1,
                 IF r[2] /\ ~Includes(r[1], items[i])
                 THEN Append(r[1], items[i]) ELSE r[1])

\* The filter had it kept only the items that carry a week list.
RECURSIVE FilterInWeekListed(_, _, _)
FilterInWeekListed(items, k, week) ==
  IF k > Len(items) THEN <<>>
  ELSE (IF IsDef(items[k].weeks) /\ isWeekInRanges(week, items[k].weeks)
        THEN <<items[k]>> ELSE <<>>) \o FilterInWeekListed(items, k + 1, week)

\* items.filter(item => !item.weeks || isWeekInRanges(selectedWeek, item.weeks))
RECURSIVE FilterInWeek(_, _, _)
FilterInWeek(items, k, week) ==
  IF k > Len(items) THEN <<>>
  ELSE (IF ~IsDef(items[k].weeks) \/ isWeekInRanges(week, items[k].weeks)
        THEN <<items[k]>> ELSE <<>>) \o FilterInWeek(items, k + 1, week)

\* findWeekConflictingItems had it returned every item of the group when no
\* pair overlaps.
findWeekConflictingItemsOrAll(items, selectedWeek) ==
  IF Truthy(selectedWeek)
  THEN FilterInWeek(items, 1, Val(selectedWeek))
  ELSE LET conflicting == OuterLoop(items, 1, <<>>)
       IN IF Len(conflicting) > 0 THEN conflicting ELSE items

findWeekConflictingItems(items, selectedWeek) ==
  IF Truthy(selectedWeek)
  THEN FilterInWeek(items, 1, Val(selectedWeek))
  ELSE OuterLoop(items, 1, <<>>)

\* The key had it been the weekday alone.
TimeKeyOfDay(item) == <<ToString(item.dayOfWeek)>>

\* `${item.dayOfWeek}-${item.timeSlotId}`
TimeKey(item) == <<ToString(item.dayOfWeek), "-", item.timeSlotId>>

\* The first forEach of detectTimeConflicts: timeMap in insertion order.
RECURSIVE GroupLoop(_, _, _, _)
GroupLoop(sched, k, selectedWeek, timeMap) ==
  IF k > Len(sched) THEN timeMap
  ELSE LET item == sched[k]
           key == TimeKey(item)
       IN IF /\ Truthy(selectedWeek) /\ IsDef(item.weeks)
             /\ ~isWeekInRanges(Val(selectedWeek), item.weeks)
          THEN GroupLoop(sched, k + 1, selectedWeek, timeMap)
          ELSE IF \E m \in 1..Len(timeMap) : timeMap[m].key = key
               THEN LET m == CHOOSE m \in 1..Len(timeMap) :
                               timeMap[m].key = key
                    IN GroupLoop(sched, k + 1, selectedWeek,
                         [timeMap EXCEPT ![m].items = Append(@, item)])
               ELSE GroupLoop(sched, k + 1, selectedWeek,
                      Append(timeMap, [key |-> key, items |-> <<item>>]))

\* The second forEach: one Conflict per entry whose conflictItems number
\* more than one.  The message text is built from timeKey and selectedWeek.
RECURSIVE ConflictLoop(_, _, _, _)
ConflictLoop(timeMap, m, selectedWeek, conflicts) ==
  IF m > Len(timeMap) THEN conflicts
  ELSE LET items == timeMap[m].items
           conflictItems == findWeekConflictingItems(items, selectedWeek)
       IN IF Len(items) > 1 /\ Len(conflictItems) > 1
          THEN ConflictLoop(timeMap, m + 1, selectedWeek,
                 Append(conflicts,
                        [type |-> "time", timeKey |-> timeMap[m].key,
                         week |-> IF Truthy(selectedWeek) THEN selectedWeek
                                  ELSE Undefined,
                         items |-> conflictItems]))
          ELSE ConflictLoop(timeMap, m + 1, selectedWeek, conflicts)

detectTimeConflicts(sched, selectedWeek) ==
  ConflictLoop(GroupLoop(sched, 1, selectedWeek, <<>>), 1, selectedWeek, <<>>)

detectConflicts(sched, selectedWeek) == detectTimeConflicts(sched, selectedWeek)

WeekInfo(opts) ==
  IF Truthy(opts.selectedWeek) THEN <<"week", Val(opts.selectedWeek)>>
  ELSE IF IsDef(opts.weekRange)
       THEN <<"range", Val(opts.weekRange).start, Val(opts.weekRange).end>>
       ELSE <<"all">>

\* this.schedule when the exception is raised: the items of the courses
\* before course number failAt.
ExpandedBefore(cs, failAt, opts) ==
  CourseLoop(<<>>, SubSeq(cs, 1, failAt - 1), 1, opts)

\* The catch block had it returned this.schedule.
generateScheduleCaughtKeeping(sched, error) ==
  [schedule |-> sched,
   conflicts |-> <<>>,
   success |-> FALSE,
   message |-> <<"failed", error>>]

\* The catch block: the result returned when the try block raised error
\* with this.schedule holding sched; conflicts is still empty.
generateScheduleCaught(sched, error) ==
  [schedule |-> <<>>,
   conflicts |-> <<>>,
   success |-> FALSE,
   message |-> <<"failed", error>>]

\* The try block running to its end.
generateSchedule(cs, opts) ==
  LET sched == CourseLoop(<<>>, cs, 1, opts)
      conflicts == detectConflicts(sched, opts.selectedWeek)
  IN [schedule |-> sched,
      conflicts |-> conflicts,
      success |-> (Len(conflicts) = 0),
      message |-> IF Len(conflicts) = 0
                  THEN <<WeekInfo(opts), "generated">>
                  ELSE <<WeekInfo(opts), "conflicts", Len(conflicts)>>]

----------------------------------------------------------------------------
(* dataMigration.ts: migrateCourseData *)

\* course.fixedTimeSlots && Array.isArray(course.fixedTimeSlots)
IsNewFormat(course) == "fixedTimeSlots" \in DOMAIN course

\* a || b on optional strings: undefined and '' are falsy.
OrElse(a, b) == IF IsDef(a) /\ Val(a) # EmptyText THEN a ELSE b

\* The default slot number i (from 0) of a course in the old format.
DefaultTimeSlot(i, duration) ==
  LET startSlot == 1 + ((i \div 5) * duration) IN
  [dayOfWeek |-> (i % 5) + 1,
   timeSlotIds |-> [j \in 1..duration |-> ToString(startSlot + j - 1)],
   weeks |-> Undefined, location |-> Undefined]

\* The body of the map: a course in the new format is returned as it is.
MigratedCourse(course) ==
  IF IsNewFormat(course) THEN course
  ELSE [id |-> course.id,
        teacherId |-> course.teacherId,
        location |-> OrElse(OrElse(course.location, course.classroomId),
                            Undefined),
        fixedTimeSlots |->
          IF course.duration # 0 /\ course.frequency # 0
          THEN [i \in 1..course.frequency |->
                  DefaultTimeSlot(i - 1, course.duration)]
          ELSE <<>>]

migrateCourseData(cs) == [k \in 1..Len(cs) |-> MigratedCourse(cs[k])]

----------------------------------------------------------------------------
(* predefinedSchedule.ts, App.tsx, ScheduleGenerator.tsx,                  *)
(* SimpleCourseManager.tsx: the application state and its handlers         *)

\* The first item of each of the first two courses of predefinedSchedule;
\* its items carry no weeks.
predefinedSchedule ==
  <<[ref |-> 1, id |-> <<"schedule-1-1">>, courseId |-> "1",
     teacherId |-> "1", timeSlotId |-> "5", dayOfWeek |-> 1,
     weeks |-> Undefined, location |-> Def(B411)],
    [ref |-> 2, id |-> <<"schedule-2-1">>, courseId |-> "2",
     teacherId |-> "3", timeSlotId |-> "9", dayOfWeek |-> 1,
     weeks |-> Undefined, location |-> Def(<<"B", "4", "0", "2">>)]>>

\* Date.now().toString()
NewId(time) == ToString(time)

\* list.filter(x => x.id !== id), for teachers and for courses.
RECURSIVE WithoutId(_, _)
WithoutId(list, id) ==
  IF list = <<>> THEN <<>>
  ELSE (IF list[1].id # id THEN <<list[1]>> ELSE <<>>) \o
       WithoutId(Tail(list), id)

\* handleDeleteTeacher had it left the courses alone.
WithTeacher(cs, id) == cs

\* courses.filter(c => c.teacherId !== id)
RECURSIVE WithoutTeacher(_, _)
WithoutTeacher(cs, id) ==
  IF cs = <<>> THEN <<>>
  ELSE (IF cs[1].teacherId # id THEN <<cs[1]>> ELSE <<>>) \o
       WithoutTeacher(Tail(cs), id)

\* handleDeleteCourse had it left the schedule alone.
WithCourse(sched, id) == sched

\* schedule.filter(s => s.courseId !== id)
RECURSIVE WithoutCourse(_, _)
WithoutCourse(sched, id) ==
  IF sched = <<>> THEN <<>>
  ELSE (IF sched[1].courseId # id THEN <<sched[1]>> ELSE <<>>) \o
       WithoutCourse(Tail(sched), id)

\* { ...c, ...updates }: updates carries no id.
Updated(c, updates) ==
  [c EXCEPT !.teacherId = updates.teacherId,
            !.location = updates.location,
            !.fixedTimeSlots = updates.fixedTimeSlots]

\* list.map(c => c.id === id ? { ...c, ...updates } : c)
UpdatedCourses(cs, id, updates) ==
  [k \in 1..Len(cs) |-> IF cs[k].id = id THEN Updated(cs[k], updates)
                        ELSE cs[k]]

\* teachers.map(t => t.id === id ? { ...t, ...updates } : t)
UpdatedTeachers(ts, id, updates) ==
  [k \in 1..Len(ts) |-> IF ts[k].id = id
                        THEN [ts[k] EXCEPT !.name = updates.name]
                        ELSE ts[k]]

\* { ...course, id: Date.now().toString() }
NewCourse(course, time) ==
  [id |-> NewId(time), teacherId |-> course.teacherId,
   location |-> course.location, fixedTimeSlots |-> course.fixedTimeSlots]

\* importedCourses.forEach(course => onAddCourse(course)): each call of
\* handleAddCourse runs setCourses([...courses, newCourse]) with the courses
\* of the render the handler belongs to (cs), and the last call's value is
\* the one stored.  With no course imported nothing is stored.
handleImportCourses(importedCourses, cs, time) ==
  IF importedCourses = <<>> THEN cs
  ELSE Append(cs, NewCourse(importedCourses[Len(importedCourses)], time))

\* The ScheduleGenerator that started a waiting handler is unmounted once
\* another tab is shown.
Unmounted(waiting, tab) ==
  [i \in 1..Len(waiting) |->
     [waiting[i] EXCEPT !.mounted = @ /\ tab = "generate"]]

\* isGenerating of the mounted ScheduleGenerator.
isGenerating == \E i \in 1..Len(pending) : pending[i].mounted

\* courses.length > 0 && teachers.length > 0
canGenerate == Len(courses) > 0 /\ Len(teachers) > 0

\* The timer of waiting handler i may fire: the delay of handleGenerate is
\* 1000 ms, that of handleUsePredefined 500 ms, so only a handleUsePredefined
\* overtakes, and only a handleGenerate.
MayFire(i) ==
  \A j \in 1..(i - 1) :
    pending[j].kind = "generate" /\ pending[i].kind = "predefined"

\* The sequence without its element i.
RemoveAt(seq, i) == SubSeq(seq, 1, i - 1) \o SubSeq(seq, i + 1, Len(seq))

----------------------------------------------------------------------------
(* Inputs *)

\* The texts of at most n characters over an alphabet.
Texts(chars, n) == UNION {[1..k -> chars] : k \in 0..n}

\* Texts handed to parseWeekRange and to parseTimeSlots.
WeekChars == {"0", "1", "2", Dash, Zhou, "x"}
PeriodChars == {"1", "2", Dash, Di, Jie, "x"}

\* The parts a line handed to parseTimeLine is made of: a week prefix (one
\* of them with the larger week first), a weekday with its periods (one of
\* them with white space in between, one with the larger period first), a
\* weekday alone, a period range alone, a space, a parenthesized location
\* and the two parentheses.
LineParts ==
  {<<"1", Dash, "2", Zhou, WideComma>>,
   <<"2", Dash, "1", Comma>>,
   <<Xing, Qi, "yi", Di, "5", Dash, "6", Jie>>,
   <<Zhou, "san", Space, Di, "5", Jie>>,
   <<Zhou, "ri", Di, "6", Dash, "5", Jie>>,
   <<Xing, Qi, "er">>,
   <<Di, "3", Jie>>,
   <<Space>>,
   <<Open>> \o B411 \o <<Close>>,
   <<Open>>,
   <<Close>>}

RECURSIVE Flatten(_)
Flatten(parts) ==
  IF parts = <<>> THEN <<>> ELSE parts[1] \o Flatten(Tail(parts))

LinePartLens == 0..4
TimeLines == {Flatten(parts) : parts \in UNION {[1..k -> LineParts] :
                                                k \in LinePartLens}}

\* The lines a block handed to parseCourseTime is made of: one slot in
\* weeks 1-2, the same slot in week 3, the same slot without weeks, another
\* slot, a line of white space and an empty line.
BlockLines ==
  {<<"1", Dash, "2", Zhou, WideComma, Xing, Qi, "yi", Di, "5", Dash, "6", Jie,
     Open>> \o B411 \o <<Close>>,
   <<"3", Zhou, Comma, Xing, Qi, "yi", Di, "5", Dash, "6", Jie, Open>> \o
     B411 \o <<Close>>,
   <<Xing, Qi, "yi", Di, "5", Dash, "6", Jie, Open>> \o B411 \o <<Close>>,
   <<Zhou, "san", Space, Di, "5", Jie, Space>>,
   <<Space, Tab>>,
   <<>>}
BlockLens == 0..3
LineBreaks == {<<LF>>, <<CR, LF>>}

\* The lines joined, line k and line k + 1 by breaks[k].
RECURSIVE JoinLines(_, _)
JoinLines(ls, breaks) ==
  IF ls = <<>> THEN <<>>
  ELSE IF Len(ls) = 1 THEN ls[1]
  ELSE ls[1] \o breaks[1] \o JoinLines(Tail(ls), Tail(breaks))

\* The first lines of the blocks handed to parseCourseInfo: the first n of
\* seven fields, joined by tabs.  The second field is a number, a name or
\* empty; the fourth may be empty; the fifth holds two names; the sixth is
\* a name or a text with a number in it; the seventh is a time.
HeaderFields ==
  {<<f1, f2, f3, f4, f5, f6, f7>> :
     f1 \in {<<"N">>},
     f2 \in {<<"3">>, <<"L", "i">>, <<>>},
     f3 \in {<<"X">>},
     f4 \in {<<"D">>, <<>>},
     f5 \in {<<"T", Comma, "U">>},
     f6 \in {<<"C">>, <<"x", "2">>},
     f7 \in {<<Zhou, "yi", Di, "1", Jie>>}}
FieldCounts == 1..7
Headers ==
  {JoinTexts(SubSeq(f, 1, n), <<Tab>>) : f \in HeaderFields, n \in FieldCounts}

\* The lines that follow the first line: a time without a tab, the first
\* line of another record with its time, a line with a tab and no time, a
\* blank line.
FollowLines ==
  {<<Zhou, "er", Di, "2", Jie>>,
   <<"M", Tab, "W", Tab, Zhou, "san", Di, "3", Jie>>,
   <<"M", Tab, "W">>,
   <<Space>>}
FollowLens == 0..2

\* The blocks, as lists of lines: nothing, or a first line, after a blank
\* line or not, and the lines that follow it.
RecordBlocks ==
  {<<>>} \cup
  {lead \o <<header>> \o follow :
     lead \in {<<>>, <<<<Space>>>>},
     header \in Headers,
     follow \in UNION {[1..k -> FollowLines] : k \in FollowLens}}

\* Lists of week ranges handed to mergeWeekRanges.
RangeListLens == 0..3
RangeLists == UNION {[1..k -> RangesUpTo(MaxWeek)] : k \in RangeListLens}

SlotWeeks == 1..MaxSlotWeek
WeekRanges == RangesUpTo(MaxSlotWeek)
SingleWeeks == {r \in WeekRanges : r.start = r.end}

\* The weeks field of a slot: absent, empty, one range, or two single-week
\* ranges in either order.
ShortWeekLists ==
  {Undefined, Def(<<>>)} \cup {Def(<<r>>) : r \in WeekRanges}
WeekLists ==
  ShortWeekLists \cup {Def(<<r1, r2>>) : r1 \in SingleWeeks, r2 \in SingleWeeks}

\* Slots handed to deduplicateTimeSlots: lists of slots of one key that
\* differ in their weeks, or lists of slots that differ in weekday, order of
\* period ids and location.
WeekSlots ==
  [dayOfWeek : {1}, timeSlotIds : {<<"5", "6">>},
   weeks : WeekLists, location : {Def(B411)}]
KeySlots ==
  [dayOfWeek : {1, 3}, timeSlotIds : {<<"5", "6">>, <<"6", "5">>},
   weeks : {Undefined, Def(<<[start |-> 1, end |-> 1]>>)},
   location : {Undefined, Def(EmptyText), Def(B411)}]
SlotListLens == 0..3
SlotLists == UNION {[1..k -> WeekSlots] \cup [1..k -> KeySlots] :
                      k \in SlotListLens}

\* Courses handed to generateSchedule: three courses of one slot each at the
\* same weekday, or one course of up to two slots.
GroupSlots ==
  [dayOfWeek : {1}, timeSlotIds : {<<"5">>, <<"5", "6">>},
   weeks : ShortWeekLists, location : {Undefined}]
SoloSlots ==
  [dayOfWeek : {1, 3}, timeSlotIds : {<<"5", "6">>},
   weeks : WeekLists, location : {Undefined, Def(B411)}]
SoloSlotLens == 0..2

Course(id, teacherId, slots) ==
  [id |-> id, teacherId |-> teacherId, location |-> Def(A101),
   fixedTimeSlots |-> slots]

CourseLists ==
  {<<Course("c1", "t1", <<s1>>), Course("c2", "t2", <<s2>>),
     Course("c3", "t1", <<s3>>)>> :
     s1 \in GroupSlots, s2 \in GroupSlots,
     s3 \in {s \in GroupSlots : Len(s.timeSlotIds) = 1}} \cup
  {<<Course("c1", "t1", slots)>> :
     slots \in UNION {[1..k -> SoloSlots] : k \in SoloSlotLens}}

\* Courses whose items meet in several (weekday, period) groups: three
\* courses of one slot each on two weekdays, their week lists absent, one
\* range, or two separate single weeks.
ConflictWeekLists ==
  {Undefined,
   Def(<<[start |-> 1, end |-> 1]>>),
   Def(<<[start |-> 1, end |-> 2]>>),
   Def(<<[start |-> MaxSlotWeek, end |-> MaxSlotWeek]>>),
   Def(<<[start |-> 1, end |-> 1],
         [start |-> MaxSlotWeek, end |-> MaxSlotWeek]>>)}
ConflictSlots ==
  [dayOfWeek : {1, 3}, timeSlotIds : {<<"5">>, <<"5", "6">>},
   weeks : ConflictWeekLists, location : {Undefined}]
ConflictCourseLists ==
  {<<Course("c1", "t1", <<s1>>), Course("c2", "t2", <<s2>>),
     Course("c3", "t1", <<s3>>)>> :
     s1 \in ConflictSlots, s2 \in ConflictSlots,
     s3 \in {s \in ConflictSlots : s.dayOfWeek = 1 /\ Len(s.timeSlotIds) = 1}}

OptionSets ==
  {NoOptions} \cup
  {[selectedWeek |-> Def(w), weekRange |-> Undefined] : w \in SlotWeeks} \cup
  {[selectedWeek |-> Undefined, weekRange |-> Def(r)] : r \in WeekRanges}

NoResult == <<>>

----------------------------------------------------------------------------
(* mergeWeekRanges applied to a list of week ranges *)

InitMerge ==
  /\ pc = "call"
  /\ weekRanges \in RangeLists
  /\ merged = <<>>
  /\ timeSlots = <<>> /\ deduped = <<>>
  /\ courses = <<>> /\ options = NoOptions /\ lastResult = NoResult
  /\ schedule = <<>> /\ activeTab = "teachers"
  /\ algSchedule = <<>> /\ thrown = <<>>
  /\ teachers = <<>> /\ coursesRaw = <<>> /\ pending = <<>> /\ now = 0
  /\ fixedTimeSlots = <<>>
  /\ text = <<>> /\ lines = <<>> /\ parsed = <<>>

\* sort() sorts the argument array in place.
MergeWeekRanges ==
  /\ pc = "call"
  /\ weekRanges' = SortByStart(weekRanges)
  /\ merged' = mergeWeekRanges(weekRanges)
  /\ pc' = "done"
  /\ UNCHANGED <<timeSlots, deduped, courses, options, lastResult, schedule,
                 activeTab, algVars, parserVars, previewVars, appVars>>

NextMerge == MergeWeekRanges

SpecMerge == InitMerge /\ [][NextMerge]_vars

----------------------------------------------------------------------------
(* deduplicateTimeSlots applied to a list of slots *)

InitDedup ==
  /\ pc = "call"
  /\ timeSlots \in SlotLists
  /\ deduped = <<>>
  /\ weekRanges = <<>> /\ merged = <<>>
  /\ courses = <<>> /\ options = NoOptions /\ lastResult = NoResult
  /\ schedule = <<>> /\ activeTab = "teachers"
  /\ algSchedule = <<>> /\ thrown = <<>>
  /\ teachers = <<>> /\ coursesRaw = <<>> /\ pending = <<>> /\ now = 0
  /\ fixedTimeSlots = <<>>
  /\ text = <<>> /\ lines = <<>> /\ parsed = <<>>

DeduplicateTimeSlots ==
  /\ pc = "call"
  /\ deduped' = deduplicateTimeSlots(timeSlots)
  /\ timeSlots' = ArgumentAfter(timeSlots)
  /\ pc' = "done"
  /\ UNCHANGED <<weekRanges, merged, courses, options, lastResult,
                 schedule, activeTab, algVars, parserVars, previewVars,
                 appVars>>

NextDedup == DeduplicateTimeSlots

SpecDedup == InitDedup /\ [][NextDedup]_vars

----------------------------------------------------------------------------
(* deduplicateTimeSlots applied again to its own output: the slots of a    *)
(* previewed course come from parseCourseTime, which deduplicated them,    *)
(* and handleAutoFixDuplicates hands them to deduplicateTimeSlots again    *)

HandleAutoFixDuplicates ==
  /\ pc = "done"
  /\ fixedTimeSlots' = deduplicateTimeSlots(deduped)
  /\ deduped' = ArgumentAfter(deduped)
  /\ pc' = "fixed"
  /\ UNCHANGED <<timeSlots, weekRanges, merged, courses, options, lastResult,
                 schedule, activeTab, algVars, parserVars, appVars>>

NextAutoFix == DeduplicateTimeSlots \/ HandleAutoFixDuplicates

SpecAutoFix == InitDedup /\ [][NextAutoFix]_vars

----------------------------------------------------------------------------
(* generateSchedule run on the stored courses, its result handed to the    *)
(* application (ScheduleGenerator.handleGenerate, App.handleScheduleGenerated) *)

InitSchedule ==
  /\ pc = "call"
  /\ courses \in CourseLists
  /\ options = NoOptions /\ lastResult = NoResult
  /\ schedule = <<>> /\ activeTab = "generate"
  /\ weekRanges = <<>> /\ merged = <<>>
  /\ timeSlots = <<>> /\ deduped = <<>>
  /\ algSchedule = <<>> /\ thrown = <<>>
  /\ teachers = <<>> /\ coursesRaw = <<>> /\ pending = <<>> /\ now = 0
  /\ fixedTimeSlots = <<>>
  /\ text = <<>> /\ lines = <<>> /\ parsed = <<>>

\* handleScheduleGenerated had it stored the schedule of every result.
handleScheduleGeneratedAlways(result, sched, tab) ==
  <<result.schedule, "schedule">>

\* handleScheduleGenerated had it added the items of a successful result to
\* the stored schedule.
handleScheduleGeneratedMerging(result, sched, tab) ==
  IF result.success THEN <<sched \o result.schedule, "schedule">>
  ELSE <<sched, tab>>

\* App.handleScheduleGenerated: <<schedule, activeTab>> after the call.
handleScheduleGenerated(result, sched, tab) ==
  IF result.success THEN <<result.schedule, "schedule">> ELSE <<sched, tab>>

GenerateSchedule ==
  /\ pc = "call"
  /\ \E opts \in OptionSets :
       LET result == generateSchedule(courses, opts)
           stored == handleScheduleGenerated(result, schedule, activeTab)
       IN /\ options' = opts
          /\ lastResult' = result
          /\ algSchedule' = result.schedule
          /\ schedule' = stored[1]
          /\ activeTab' = stored[2]
  /\ pc' = "done"
  /\ UNCHANGED <<courses, weekRanges, merged, timeSlots, deduped, thrown,
                 parserVars, previewVars, appVars>>

NextSchedule == GenerateSchedule

SpecSchedule == InitSchedule /\ [][NextSchedule]_vars

----------------------------------------------------------------------------
(* generateSchedule when an exception is raised inside its try block *)

\* Course lists of the failing runs: three courses of one slot each, the
\* last one without a week list.
FailureCourseLists ==
  {cs \in CourseLists :
     Len(cs) = 3 /\ cs[3].fixedTimeSlots[1].weeks = Undefined}

\* error.message of the exception.
ErrorMessages == {"Cannot read properties of null"}

InitFailure ==
  /\ pc = "call"
  /\ courses \in FailureCourseLists
  /\ options = NoOptions /\ lastResult = NoResult
  /\ schedule = <<>> /\ activeTab = "generate"
  /\ weekRanges = <<>> /\ merged = <<>>
  /\ timeSlots = <<>> /\ deduped = <<>>
  /\ algSchedule = <<>> /\ thrown = <<>>
  /\ teachers = <<>> /\ coursesRaw = <<>> /\ pending = <<>> /\ now = 0
  /\ fixedTimeSlots = <<>>
  /\ text = <<>> /\ lines = <<>> /\ parsed = <<>>

\* The exception is raised while course number failAt is expanded, the
\* courses before it expanded already, or, with failAt past the last course,
\* while the conflicts are detected.
GenerateScheduleThrowing ==
  /\ pc = "call"
  /\ \E opts \in OptionSets : \E failAt \in 1..(Len(courses) + 1) :
     \E error \in ErrorMessages :
       LET expanded == ExpandedBefore(courses, failAt, opts)
           result == generateScheduleCaught(expanded, error)
           stored == handleScheduleGenerated(result, schedule, activeTab)
       IN /\ options' = opts
          /\ thrown' = Def([at |-> failAt, message |-> error])
          /\ algSchedule' = expanded
          /\ lastResult' = result
          /\ schedule' = stored[1]
          /\ activeTab' = stored[2]
  /\ pc' = "done"
  /\ UNCHANGED <<courses, weekRanges, merged, timeSlots, deduped, parserVars,
                 previewVars, appVars>>

NextFailure == GenerateSchedule \/ GenerateScheduleThrowing

SpecFailure == InitFailure /\ [][NextFailure]_vars

----------------------------------------------------------------------------
(* generateSchedule run on courses that meet on several weekdays and periods *)

InitConflicts ==
  /\ pc = "call"
  /\ courses \in ConflictCourseLists
  /\ options = NoOptions /\ lastResult = NoResult
  /\ schedule = <<>> /\ activeTab = "generate"
  /\ weekRanges = <<>> /\ merged = <<>>
  /\ timeSlots = <<>> /\ deduped = <<>>
  /\ algSchedule = <<>> /\ thrown = <<>>
  /\ teachers = <<>> /\ coursesRaw = <<>> /\ pending = <<>> /\ now = 0
  /\ fixedTimeSlots = <<>>
  /\ text = <<>> /\ lines = <<>> /\ parsed = <<>>

NextConflicts == GenerateSchedule

SpecConflicts == InitConflicts /\ [][NextConflicts]_vars

----------------------------------------------------------------------------
(* The application: teachers and courses are added, updated, deleted and   *)
(* imported, schedules are generated or loaded after a delay; pc names the *)
(* handler that ran last                                                   *)

\* Date.now() when the application starts.
StartTime == 1000

\* What the store holds when the application starts: two teachers, and two
\* courses at the same weekday and period, or one course and one course in
\* the old format.
StoredTeachers ==
  <<[id |-> "1", name |-> "Chen"], [id |-> "2", name |-> "Yu"]>>
StoredCourseLists ==
  {<<Course("1", "1",
       <<[dayOfWeek |-> 1, timeSlotIds |-> <<"5">>,
          weeks |-> Undefined, location |-> Def(B411)]>>),
     Course("2", "2",
       <<[dayOfWeek |-> 1, timeSlotIds |-> <<"5">>,
          weeks |-> Def(<<[start |-> 1, end |-> 1]>>),
          location |-> Undefined]>>)>>,
   <<Course("1", "1",
       <<[dayOfWeek |-> 1, timeSlotIds |-> <<"5">>,
          weeks |-> Undefined, location |-> Def(B411)]>>),
     [id |-> "3", teacherId |-> "2", location |-> Undefined,
      classroomId |-> Def(A101), duration |-> 1, frequency |-> 1]>>}

\* The schedule found in the store: none, or one of an earlier session.
StoredSchedules == {<<>>, <<predefinedSchedule[1]>>}

\* What the forms and the importers hand over: a teacher, a course (for
\* handleAddCourse and handleUpdateCourse), and batches of parsed courses.
FormTeachers == {[name |-> "Sun"]}
FormCourses ==
  {[teacherId |-> "1", location |-> Undefined,
    fixedTimeSlots |-> <<[dayOfWeek |-> 3, timeSlotIds |-> <<"5">>,
                          weeks |-> Undefined, location |-> Undefined]>>]}
ParsedCourse(teacherId) ==
  [teacherId |-> teacherId, location |-> Undefined,
   fixedTimeSlots |-> <<[dayOfWeek |-> 2, timeSlotIds |-> <<"1">>,
                         weeks |-> Undefined, location |-> Undefined]>>]
Batches == {<<ParsedCourse("1")>>, <<ParsedCourse("1"), ParsedCourse("2")>>}

\* The options handleGenerate builds from selectedWeek and weekRange.
GeneratorOptions ==
  {[selectedWeek |-> Def(1), weekRange |-> Undefined],
   [selectedWeek |-> Undefined, weekRange |-> Def([start |-> 2, end |-> 2])]}

Tabs == {"teachers", "courses", "generate", "schedule"}

InitApp ==
  /\ pc = "App"
  /\ teachers = StoredTeachers
  /\ coursesRaw \in StoredCourseLists
  /\ courses = migrateCourseData(coursesRaw)
  /\ schedule \in StoredSchedules /\ activeTab = "teachers"
  /\ pending = <<>> /\ now = StartTime
  /\ options = NoOptions /\ lastResult = NoResult
  /\ weekRanges = <<>> /\ merged = <<>>
  /\ timeSlots = <<>> /\ deduped = <<>>
  /\ algSchedule = <<>> /\ thrown = <<>>
  /\ text = <<>> /\ lines = <<>> /\ parsed = <<>>
  /\ fixedTimeSlots = <<>>

\* What no handler of the application touches.
otherVars ==
  <<weekRanges, merged, timeSlots, deduped, thrown, parserVars, previewVars>>

\* Time passes from one handler call to the next.
Later ==
  /\ now < StartTime + MaxTime
  /\ now' = now + 1

\* pc names the handler that ran last; options, lastResult and algSchedule
\* are the options of the last generation, the result it handed to
\* handleScheduleGenerated and this.schedule of its algorithm, and are
\* empty when another handler ran last.
Ran(handler) ==
  /\ Later
  /\ pc' = handler
  /\ options' = NoOptions /\ lastResult' = NoResult /\ algSchedule' = <<>>

\* setCourses(newCourses) with an array: the array is stored, and the next
\* render migrates it.
SetCourses(newCourses) ==
  /\ coursesRaw' = newCourses
  /\ courses' = migrateCourseData(newCourses)

\* onClick={() => setActiveTab(tab.id)}
SetActiveTab(tab) ==
  /\ activeTab' = tab
  /\ pending' = Unmounted(pending, tab)
  /\ Ran("setActiveTab")
  /\ UNCHANGED <<teachers, coursesRaw, courses, schedule, otherVars>>

HandleAddTeacher(teacher) ==
  /\ activeTab = "teachers"
  /\ teachers' = Append(teachers, [id |-> NewId(now), name |-> teacher.name])
  /\ Ran("handleAddTeacher")
  /\ UNCHANGED <<coursesRaw, courses, schedule, activeTab, pending, otherVars>>

HandleUpdateTeacher(id, updates) ==
  /\ activeTab = "teachers"
  /\ \E k \in 1..Len(teachers) : teachers[k].id = id
  /\ teachers' = UpdatedTeachers(teachers, id, updates)
  /\ Ran("handleUpdateTeacher")
  /\ UNCHANGED <<coursesRaw, courses, schedule, activeTab, pending, otherVars>>

HandleDeleteTeacher(id) ==
  /\ activeTab = "teachers"
  /\ \E k \in 1..Len(teachers) : teachers[k].id = id
  /\ teachers' = WithoutId(teachers, id)
  /\ SetCourses(WithoutTeacher(courses, id))
  /\ Ran("handleDeleteTeacher")
  /\ UNCHANGED <<schedule, activeTab, pending, otherVars>>

HandleAddCourse(course) ==
  /\ activeTab = "courses"
  /\ SetCourses(Append(courses, NewCourse(course, now)))
  /\ Ran("handleAddCourse")
  /\ UNCHANGED <<teachers, schedule, activeTab, pending, otherVars>>

HandleUpdateCourse(id, updates) ==
  /\ activeTab = "courses"
  /\ \E k \in 1..Len(courses) : courses[k].id = id
  /\ SetCourses(UpdatedCourses(courses, id, updates))
  /\ Ran("handleUpdateCourse")
  /\ UNCHANGED <<teachers, schedule, activeTab, pending, otherVars>>

HandleDeleteCourse(id) ==
  /\ activeTab = "courses"
  /\ \E k \in 1..Len(courses) : courses[k].id = id
  /\ SetCourses(WithoutId(courses, id))
  /\ schedule' = WithoutCourse(schedule, id)
  /\ Ran("handleDeleteCourse")
  /\ UNCHANGED <<teachers, activeTab, pending, otherVars>>

\* handleImportCourses of SimpleCourseManager, called by the importers with
\* the courses they parsed; the calls of Date.now() fall in one millisecond.
HandleImportCourses(importedCourses) ==
  /\ activeTab = "courses"
  /\ SetCourses(handleImportCourses(importedCourses, courses, now))
  /\ Ran("handleImportCourses")
  /\ UNCHANGED <<teachers, schedule, activeTab, pending, otherVars>>

\* handleGenerate up to its await: the handler waits with the courses and
\* the options of the render in which the button was clicked.
HandleGenerate(opts) ==
  /\ activeTab = "generate"
  /\ canGenerate /\ ~isGenerating
  /\ Len(pending) < MaxPending
  /\ pending' = Append(pending, [kind |-> "generate", courses |-> courses,
                                  options |-> opts, mounted |-> TRUE])
  /\ Ran("handleGenerate")
  /\ UNCHANGED <<teachers, coursesRaw, courses, schedule, activeTab, otherVars>>

\* handleGenerate after its await: the schedule is generated and handed to
\* handleScheduleGenerated.
GenerateAfterDelay(i) ==
  /\ pending[i].kind = "generate"
  /\ MayFire(i)
  /\ LET result == generateSchedule(pending[i].courses, pending[i].options)
         stored == handleScheduleGenerated(result, schedule, activeTab)
     IN /\ options' = pending[i].options
        /\ lastResult' = result
        /\ algSchedule' = result.schedule
        /\ schedule' = stored[1]
        /\ activeTab' = stored[2]
        /\ pending' = Unmounted(RemoveAt(pending, i), stored[2])
  /\ Later
  /\ pc' = "handleScheduleGenerated"
  /\ UNCHANGED <<teachers, coursesRaw, courses, otherVars>>

\* handleUsePredefined up to its await.
HandleUsePredefined ==
  /\ activeTab = "generate"
  /\ ~isGenerating
  /\ Len(pending) < MaxPending
  /\ pending' = Append(pending, [kind |-> "predefined", courses |-> courses,
                                  options |-> NoOptions, mounted |-> TRUE])
  /\ Ran("handleUsePredefined")
  /\ UNCHANGED <<teachers, coursesRaw, courses, schedule, activeTab, otherVars>>

\* handleUsePredefined after its await.
PredefinedAfterDelay(i) ==
  /\ pending[i].kind = "predefined"
  /\ MayFire(i)
  /\ LET result == [schedule |-> predefinedSchedule, conflicts |-> <<>>,
                    success |-> TRUE, message |-> <<"predefined">>]
         stored == handleScheduleGenerated(result, schedule, activeTab)
     IN /\ lastResult' = result
        /\ schedule' = stored[1]
        /\ activeTab' = stored[2]
        /\ pending' = Unmounted(RemoveAt(pending, i), stored[2])
  /\ Later
  /\ pc' = "handleScheduleGenerated"
  /\ UNCHANGED <<teachers, coursesRaw, courses, options, algSchedule,
                 otherVars>>

NextApp ==
  \/ \E tab \in Tabs : SetActiveTab(tab)
  \/ \E teacher \in FormTeachers : HandleAddTeacher(teacher)
  \/ \E k \in 1..Len(teachers) : \E updates \in FormTeachers :
       HandleUpdateTeacher(teachers[k].id, updates)
  \/ \E k \in 1..Len(teachers) : HandleDeleteTeacher(teachers[k].id)
  \/ \E course \in FormCourses : HandleAddCourse(course)
  \/ \E k \in 1..Len(courses) : \E updates \in FormCourses :
       HandleUpdateCourse(courses[k].id, updates)
  \/ \E k \in 1..Len(courses) : HandleDeleteCourse(courses[k].id)
  \/ \E importedCourses \in Batches : HandleImportCourses(importedCourses)
  \/ \E opts \in GeneratorOptions : HandleGenerate(opts)
  \/ \E i \in 1..Len(pending) : GenerateAfterDelay(i)
  \/ HandleUsePredefined
  \/ \E i \in 1..Len(pending) : PredefinedAfterDelay(i)

SpecApp == InitApp /\ [][NextApp]_vars

----------------------------------------------------------------------------
(* parseWeekRange and parseTimeSlots applied to a text *)

InitParser ==
  /\ pc = "call"
  /\ lines = <<>> /\ parsed = <<>>
  /\ weekRanges = <<>> /\ merged = <<>>
  /\ timeSlots = <<>> /\ deduped = <<>>
  /\ courses = <<>> /\ options = NoOptions /\ lastResult = NoResult
  /\ schedule = <<>> /\ activeTab = "teachers"
  /\ algSchedule = <<>> /\ thrown = <<>>
  /\ teachers = <<>> /\ coursesRaw = <<>> /\ pending = <<>> /\ now = 0
  /\ fixedTimeSlots = <<>>

InitWeekRange == InitParser /\ text \in Texts(WeekChars, MaxTextLen)

ParseWeekRange ==
  /\ pc = "call"
  /\ parsed' = parseWeekRange(text)
  /\ pc' = "done"
  /\ UNCHANGED <<text, lines, weekRanges, merged, timeSlots, deduped, courses,
                 options, lastResult, schedule, activeTab, algVars,
                 previewVars, appVars>>

NextWeekRange == ParseWeekRange

SpecWeekRange == InitWeekRange /\ [][NextWeekRange]_vars

InitTimeSlots == InitParser /\ text \in Texts(PeriodChars, MaxTextLen)

ParseTimeSlots ==
  /\ pc = "call"
  /\ parsed' = parseTimeSlots(text)
  /\ pc' = "done"
  /\ UNCHANGED <<text, lines, weekRanges, merged, timeSlots, deduped, courses,
                 options, lastResult, schedule, activeTab, algVars,
                 previewVars, appVars>>

NextTimeSlots == ParseTimeSlots

SpecTimeSlots == InitTimeSlots /\ [][NextTimeSlots]_vars

----------------------------------------------------------------------------
(* parseTimeLine applied to a line *)

InitTimeLine == InitParser /\ text \in TimeLines

ParseTimeLine ==
  /\ pc = "call"
  /\ parsed' = parseTimeLine(text)
  /\ pc' = "done"
  /\ UNCHANGED <<text, lines, weekRanges, merged, timeSlots, deduped, courses,
                 options, lastResult, schedule, activeTab, algVars,
                 previewVars, appVars>>

NextTimeLine == ParseTimeLine

SpecTimeLine == InitTimeLine /\ [][NextTimeLine]_vars

----------------------------------------------------------------------------
(* parseCourseTime applied to a block of lines *)

InitCourseTime ==
  /\ pc = "call"
  /\ lines \in UNION {[1..k -> BlockLines] : k \in BlockLens}
  /\ \E breaks \in [1..2 -> LineBreaks] : text = JoinLines(lines, breaks)
  /\ parsed = <<>>
  /\ weekRanges = <<>> /\ merged = <<>>
  /\ timeSlots = <<>> /\ deduped = <<>>
  /\ courses = <<>> /\ options = NoOptions /\ lastResult = NoResult
  /\ schedule = <<>> /\ activeTab = "teachers"
  /\ algSchedule = <<>> /\ thrown = <<>>
  /\ teachers = <<>> /\ coursesRaw = <<>> /\ pending = <<>> /\ now = 0
  /\ fixedTimeSlots = <<>>

ParseCourseTime ==
  /\ pc = "call"
  /\ parsed' = parseCourseTime(text)
  /\ pc' = "done"
  /\ UNCHANGED <<text, lines, weekRanges, merged, timeSlots, deduped, courses,
                 options, lastResult, schedule, activeTab, algVars,
                 previewVars, appVars>>

NextCourseTime == ParseCourseTime

SpecCourseTime == InitCourseTime /\ [][NextCourseTime]_vars

----------------------------------------------------------------------------
(* parseCourseInfo applied to a block of lines *)

InitCourseInfo ==
  /\ pc = "call"
  /\ lines \in RecordBlocks
  /\ text = JoinTexts(lines, <<LF>>)
  /\ parsed = <<>>
  /\ weekRanges = <<>> /\ merged = <<>>
  /\ timeSlots = <<>> /\ deduped = <<>>
  /\ courses = <<>> /\ options = NoOptions /\ lastResult = NoResult
  /\ schedule = <<>> /\ activeTab = "teachers"
  /\ algSchedule = <<>> /\ thrown = <<>>
  /\ teachers = <<>> /\ coursesRaw = <<>> /\ pending = <<>> /\ now = 0
  /\ fixedTimeSlots = <<>>

ParseCourseInfo ==
  /\ pc = "call"
  /\ parsed' = parseCourseInfo(text)
  /\ pc' = "done"
  /\ UNCHANGED <<text, lines, weekRanges, merged, timeSlots, deduped, courses,
                 options, lastResult, schedule, activeTab, algVars,
                 previewVars, appVars>>

NextCourseInfo == ParseCourseInfo

SpecCourseInfo == InitCourseInfo /\ [][NextCourseInfo]_vars

----------------------------------------------------------------------------
(* Vocabulary of the properties *)

\* A week list restricts nothing when it is absent or empty.
Unrestricted(weeks) == ~IsDef(weeks) \/ Val(weeks) = <<>>

\* The weeks in which a restricted week list is active.
ActiveWeeks(weeks) == WeeksOf(Val(weeks))

\* Two items have overlapping weeks: one of them is unrestricted or they are
\* both active in some week.
WeeksOverlap(a, b) ==
  \/ Unrestricted(a.weeks) \/ Unrestricted(b.weeks)
  \/ ActiveWeeks(a.weeks) \cap ActiveWeeks(b.weeks) # {}

\* The indices of the generated items at one (weekday, period).
GroupAt(sched, d, p) ==
  {k \in 1..Len(sched) : sched[k].dayOfWeek = d /\ sched[k].timeSlotId = p}

\* The items of a group that overlap at least one other item of the group.
Overlapping(sched, G) ==
  {k \in G : \E m \in G \ {k} : WeeksOverlap(sched[k], sched[m])}

\* The conflicts reported at one (weekday, period).
ConflictsAt(conflicts, d, p) ==
  {c \in 1..Len(conflicts) :
     \E k \in 1..Len(conflicts[c].items) :
       /\ conflicts[c].items[k].dayOfWeek = d
       /\ conflicts[c].items[k].timeSlotId = p}

ItemRefs(items) == {items[k].ref : k \in 1..Len(items)}

\* The (course, slot, period) triples of a course list, as indices.
Triples(cs) ==
  UNION {UNION {{<<c, s, k>> :
                   k \in 1..Len(cs[c].fixedTimeSlots[s].timeSlotIds)} :
                s \in 1..Len(cs[c].fixedTimeSlots)} :
         c \in 1..Len(cs)}

TripleBefore(t, u) ==
  \/ t[1] < u[1]
  \/ t[1] = u[1] /\ t[2] < u[2]
  \/ t[1] = u[1] /\ t[2] = u[2] /\ t[3] < u[3]

\* The item the claim describes for one triple.
Carries(item, cs, t) ==
  LET course == cs[t[1]]
      slot == course.fixedTimeSlots[t[2]]
  IN /\ item.courseId = course.id
     /\ item.teacherId = course.teacherId
     /\ item.dayOfWeek = slot.dayOfWeek
     /\ item.timeSlotId = slot.timeSlotIds[t[3]]
     /\ item.weeks = slot.weeks
     /\ item.location = IF IsDef(slot.location) /\ Val(slot.location) # EmptyText
                        THEN slot.location ELSE course.location

\* sched holds exactly one item for every triple of T and no other item.
OneItemPerTriple(sched, cs, T) ==
  /\ Len(sched) = Cardinality(T)
  /\ \A t \in T :
       Carries(sched[Cardinality({u \in T : TripleBefore(u, t)}) + 1], cs, t)

SlotOf(cs, t) == cs[t[1]].fixedTimeSlots[t[2]]

----------------------------------------------------------------------------
(* Properties *)

\* C1: without a single target week, at every (weekday, period) with two or
\* more generated items a conflict is reported iff some pair of the items
\* has overlapping weeks, and the conflict lists exactly the items that
\* overlap another item of the group.
C1_ConflictIffOverlap ==
  (pc = "done" /\ ~Truthy(options.selectedWeek)) =>
    LET sched == lastResult.schedule
        conflicts == lastResult.conflicts
    IN \A k \in 1..Len(sched) :
         LET G == GroupAt(sched, sched[k].dayOfWeek, sched[k].timeSlotId)
             at == ConflictsAt(conflicts, sched[k].dayOfWeek,
                               sched[k].timeSlotId)
         IN Cardinality(G) >= 2 =>
              /\ (at # {}) <=> (Overlapping(sched, G) # {})
              /\ \A c \in at :
                   /\ ItemRefs(conflicts[c].items) = Overlapping(sched, G)
                   /\ Len(conflicts[c].items) =
                        Cardinality(Overlapping(sched, G))

\* A group of three items of which two overlap and the third overlaps no
\* peer: one conflict, listing the two.
C1_Witness ==
  /\ pc = "done" /\ ~Truthy(options.selectedWeek)
  /\ Len(lastResult.schedule) >= 3
  /\ \E k \in 1..Len(lastResult.schedule) :
       LET sched == lastResult.schedule
           G == GroupAt(sched, sched[k].dayOfWeek, sched[k].timeSlotId)
       IN /\ Cardinality(G) = 3
          /\ Cardinality(Overlapping(sched, G)) = 2
          /\ Len(lastResult.conflicts) = 1
          /\ Len(lastResult.conflicts[1].items) = 2

\* C2 (as stated): a run that detects a conflict gives a successful result
\* carrying the schedule, and the application stores that schedule.
C2_ConflictsAreSuccess ==
  (pc = "done" /\ Len(lastResult.conflicts) > 0) =>
    /\ lastResult.success
    /\ schedule = lastResult.schedule

\* C2 (amended): a run that detects a conflict gives a result with
\* success = FALSE that carries the full generated schedule and the
\* conflicts; the application leaves its stored schedule and tab as they
\* were.
C2_ConflictsAreFailure ==
  (pc = "done" /\ Len(lastResult.conflicts) > 0) =>
    /\ ~lastResult.success
    /\ Len(lastResult.schedule) =
         Cardinality({t \in Triples(courses) :
                        ~SlotSkipped(SlotOf(courses, t), options)})
    /\ \A c \in 1..Len(lastResult.conflicts) :
         \A k \in 1..Len(lastResult.conflicts[c].items) :
           Includes(lastResult.schedule, lastResult.conflicts[c].items[k])
    /\ schedule = <<>>
    /\ activeTab = "generate"

C2_Witness ==
  /\ pc = "done"
  /\ Len(lastResult.conflicts) > 0
  /\ Len(lastResult.schedule) >= 2
  /\ schedule = <<>>

\* C3: mergeWeekRanges returns ranges sorted by start that cover the weeks
\* of the input, every two consecutive ones separated by a gap of at least
\* one week.
C3_MergeMinimal ==
  pc = "done" =>
    /\ \A i \in 1..Len(merged) : \A j \in 1..Len(merged) :
         i < j => merged[i].start < merged[j].start
    /\ WeeksOf(merged) = WeeksOf(weekRanges)
    /\ \A i \in 1..(Len(merged) - 1) :
         merged[i + 1].start > merged[i].end + 1

\* Three ranges, two of them adjacent and coalesced, the third kept apart
\* by a gap.
C3_Witness ==
  /\ pc = "done"
  /\ Len(weekRanges) = 3 /\ Len(merged) = 2
  /\ \E i \in 1..3 : \E j \in 1..3 :
       weekRanges[j].start = weekRanges[i].end + 1
  /\ merged[2].start = merged[1].end + 2

\* The key of a slot as the claims describe it: weekday, period ids in
\* their given order, location or the empty string.
KeyOf(slot) ==
  <<slot.dayOfWeek, slot.timeSlotIds,
    IF IsDef(slot.location) THEN Val(slot.location) ELSE EmptyText>>

\* The input positions at which a key occurs for the first time.
FirstSeen(slots) ==
  {i \in 1..Len(slots) :
     \A j \in 1..(i - 1) : KeyOf(slots[j]) # KeyOf(slots[i])}

\* The input positions that hold a given key.
Holding(slots, key) == {i \in 1..Len(slots) : KeyOf(slots[i]) = key}

\* The output position of the key first seen at input position i.
OutIndex(slots, i) == Cardinality({j \in FirstSeen(slots) : j <= i})

\* The week lists of the slots at the positions of I, concatenated in
\* input order.
RECURSIVE ConcatWeeks(_, _, _)
ConcatWeeks(slots, I, i) ==
  IF i > Len(slots) THEN <<>>
  ELSE (IF i \in I THEN Val(slots[i].weeks) ELSE <<>>) \o
       ConcatWeeks(slots, I, i + 1)

\* C4: deduplicateTimeSlots returns one slot per distinct key of its input,
\* in order of first occurrence, with the weekday, period ids and location
\* of the first input slot of that key.
C4_OneSlotPerKey ==
  pc = "done" =>
    /\ Len(deduped) = Cardinality(FirstSeen(timeSlots))
    /\ \A i \in FirstSeen(timeSlots) :
         LET out == deduped[OutIndex(timeSlots, i)] IN
         /\ out.dayOfWeek = timeSlots[i].dayOfWeek
         /\ out.timeSlotIds = timeSlots[i].timeSlotIds
         /\ out.location = timeSlots[i].location
    /\ \A k \in 1..Len(deduped) : \A m \in 1..Len(deduped) :
         KeyOf(deduped[k]) = KeyOf(deduped[m]) => k = m

\* Three slots, the first and third of one key (locations '' and absent),
\* the second of another: two slots come out, the first with location ''.
C4_Witness ==
  /\ pc = "done"
  /\ Len(timeSlots) = 3 /\ Len(deduped) = 2
  /\ KeyOf(timeSlots[1]) = KeyOf(timeSlots[3])
  /\ timeSlots[1].location = Def(EmptyText) /\ timeSlots[3].location = Undefined
  /\ KeyOf(timeSlots[2]) # KeyOf(timeSlots[1])
  /\ deduped[1].location = Def(EmptyText)

SameIdsOtherOrder(a, b) ==
  /\ a.dayOfWeek = b.dayOfWeek
  /\ KeyOf(a)[3] = KeyOf(b)[3]
  /\ Len(a.timeSlotIds) = Len(b.timeSlotIds)
  /\ {a.timeSlotIds[k] : k \in 1..Len(a.timeSlotIds)} =
       {b.timeSlotIds[k] : k \in 1..Len(b.timeSlotIds)}
  /\ a.timeSlotIds # b.timeSlotIds

\* C5 (as stated): two slots of the same weekday and location whose period
\* ids are the same in another order have the same key and come out as one
\* slot.
C5_KeySortsIds ==
  pc = "done" =>
    \A i \in 1..Len(timeSlots) : \A j \in 1..Len(timeSlots) :
      SameIdsOtherOrder(timeSlots[i], timeSlots[j]) =>
        /\ SlotKey(timeSlots[i]) = SlotKey(timeSlots[j])
        /\ Cardinality({k \in 1..Len(deduped) :
                          \/ KeyOf(deduped[k]) = KeyOf(timeSlots[i])
                          \/ KeyOf(deduped[k]) = KeyOf(timeSlots[j])}) = 1

\* C5 (amended): the key uses the period ids in their given order: two slots
\* of the same weekday and location have the same key iff their period id
\* lists are equal, and two slots whose ids differ only in order come out
\* as two slots.
C5_KeyKeepsIdOrder ==
  pc = "done" =>
    \A i \in 1..Len(timeSlots) : \A j \in 1..Len(timeSlots) :
      /\ (/\ timeSlots[i].dayOfWeek = timeSlots[j].dayOfWeek
          /\ KeyOf(timeSlots[i])[3] = KeyOf(timeSlots[j])[3]) =>
           ((SlotKey(timeSlots[i]) = SlotKey(timeSlots[j])) <=>
              (timeSlots[i].timeSlotIds = timeSlots[j].timeSlotIds))
      /\ SameIdsOtherOrder(timeSlots[i], timeSlots[j]) =>
           \E k \in 1..Len(deduped) : \E m \in 1..Len(deduped) :
             /\ k # m
             /\ KeyOf(deduped[k]) = KeyOf(timeSlots[i])
             /\ KeyOf(deduped[m]) = KeyOf(timeSlots[j])

C5_Witness ==
  /\ pc = "done"
  /\ Len(timeSlots) = 2 /\ Len(deduped) = 2
  /\ SameIdsOtherOrder(timeSlots[1], timeSlots[2])
  /\ timeSlots[1].timeSlotIds = <<"5", "6">>

\* Every input slot of the key carries a non-empty week list.
AllCarryWeeks(slots, key) ==
  \A i \in Holding(slots, key) : HasWeeks(slots[i])

\* C6 (as stated): for a key whose input slots all carry week ranges, the
\* output week list is mergeWeekRanges of the concatenated input week lists,
\* whether the key occurs once or several times.
C6_WeeksAlwaysMerged ==
  pc = "done" =>
    \A i \in FirstSeen(timeSlots) :
      LET key == KeyOf(timeSlots[i]) IN
      AllCarryWeeks(timeSlots, key) =>
        deduped[OutIndex(timeSlots, i)].weeks =
          Def(mergeWeekRanges(
                ConcatWeeks(timeSlots, Holding(timeSlots, key), 1)))

\* C6 (amended): for a key that occurs several times and whose input slots
\* all carry week ranges, the output week list is mergeWeekRanges of the
\* concatenated input week lists, hence sorted with a gap between
\* consecutive ranges; for a key that occurs once the output week list is
\* the input slot's list as given.
C6_WeeksMergedWhenShared ==
  pc = "done" =>
    \A i \in FirstSeen(timeSlots) :
      LET key == KeyOf(timeSlots[i])
          out == deduped[OutIndex(timeSlots, i)].weeks
      IN AllCarryWeeks(timeSlots, key) =>
           IF Cardinality(Holding(timeSlots, key)) >= 2
           THEN /\ out = Def(mergeWeekRanges(
                               ConcatWeeks(timeSlots,
                                           Holding(timeSlots, key), 1)))
                /\ WeeksOf(Val(out)) =
                     UNION {WeeksOf(Val(timeSlots[j].weeks)) :
                              j \in Holding(timeSlots, key)}
                /\ \A k \in 1..(Len(Val(out)) - 1) :
                     Val(out)[k + 1].start > Val(out)[k].end + 1
           ELSE out = timeSlots[i].weeks

\* Three slots of one key whose ranges coalesce into a single range.
C6_Witness ==
  /\ pc = "done"
  /\ Len(timeSlots) = 3 /\ Len(deduped) = 1
  /\ AllCarryWeeks(timeSlots, KeyOf(timeSlots[1]))
  /\ timeSlots[1].weeks = Def(<<[start |-> 3, end |-> 3]>>)
  /\ timeSlots[2].weeks = Def(<<[start |-> 1, end |-> 1]>>)
  /\ timeSlots[3].weeks = Def(<<[start |-> 2, end |-> 2]>>)
  /\ deduped[1].weeks = Def(<<[start |-> 1, end |-> 3]>>)

\* C7: if some input slot of a key has no week information, the output slot
\* of that key has weeks undefined.
C7_WholeTermKept ==
  pc = "done" =>
    \A i \in FirstSeen(timeSlots) :
      (\E j \in Holding(timeSlots, KeyOf(timeSlots[i])) :
         ~IsDef(timeSlots[j].weeks)) =>
        ~IsDef(deduped[OutIndex(timeSlots, i)].weeks)

\* C8: with no week option the schedule holds exactly one item for every
\* (course, slot, period) triple, carrying the course id, teacher id,
\* weekday, period id, the slot's week list, and the slot's location or
\* else the course's.
C8_OneItemPerPeriod ==
  (pc = "done" /\ options = NoOptions) =>
    OneItemPerTriple(lastResult.schedule, courses, Triples(courses))

\* A course with two slots of two periods each, one slot without a location
\* of its own: four items.
C8_Witness ==
  /\ pc = "done" /\ options = NoOptions
  /\ Len(courses) = 1 /\ Len(courses[1].fixedTimeSlots) = 2
  /\ courses[1].fixedTimeSlots[1].location = Undefined
  /\ courses[1].fixedTimeSlots[2].location = Def(B411)
  /\ Len(lastResult.schedule) = 4
  /\ lastResult.schedule[1].location = Def(A101)
  /\ lastResult.schedule[4].location = Def(B411)

\* The week-membership test as the claim states it.
ActiveIn(w, weeks) ==
  \/ ~IsDef(weeks) \/ Val(weeks) = <<>>
  \/ \E i \in 1..Len(Val(weeks)) :
       Val(weeks)[i].start <= w /\ w <= Val(weeks)[i].end

\* C9: with a single target week w >= 1 the schedule holds the items of
\* exactly the slots whose week list is absent, empty or contains w, and
\* every item is active in week w.
C9_SelectedWeekFilter ==
  (pc = "done" /\ IsDef(options.selectedWeek)
     /\ Val(options.selectedWeek) >= 1) =>
    LET w == Val(options.selectedWeek) IN
    /\ OneItemPerTriple(lastResult.schedule, courses,
         {t \in Triples(courses) : ActiveIn(w, SlotOf(courses, t).weeks)})
    /\ \A k \in 1..Len(lastResult.schedule) :
         ActiveIn(w, lastResult.schedule[k].weeks)

\* A course of two slots, one active in the target week and kept, the other
\* restricted to other weeks and dropped.
C9_Witness ==
  /\ pc = "done" /\ IsDef(options.selectedWeek)
  /\ Len(courses) = 1 /\ Len(courses[1].fixedTimeSlots) = 2
  /\ ~ActiveIn(Val(options.selectedWeek), courses[1].fixedTimeSlots[1].weeks)
  /\ IsDef(courses[1].fixedTimeSlots[2].weeks)
  /\ Len(Val(courses[1].fixedTimeSlots[2].weeks)) = 2
  /\ ActiveIn(Val(options.selectedWeek), courses[1].fixedTimeSlots[2].weeks)
  /\ Len(lastResult.schedule) = 2

\* C10: with a target week range and no single target week the schedule
\* holds the items of exactly the slots whose week list is absent or empty
\* or has a range r with r.start <= e and r.end >= s.
C10_WeekRangeFilter ==
  (pc = "done" /\ ~IsDef(options.selectedWeek) /\ IsDef(options.weekRange)) =>
    LET target == Val(options.weekRange)
        Kept(weeks) ==
          \/ ~IsDef(weeks) \/ Val(weeks) = <<>>
          \/ \E i \in 1..Len(Val(weeks)) :
               /\ Val(weeks)[i].start <= target.end
               /\ Val(weeks)[i].end >= target.start
    IN OneItemPerTriple(lastResult.schedule, courses,
         {t \in Triples(courses) : Kept(SlotOf(courses, t).weeks)})

\* C11: with a single target week w, every (weekday, period) at which two
\* or more generated items are active in week w has exactly one conflict,
\* which lists exactly those items, and a (weekday, period) with fewer than
\* two such items has no conflict.
C11_OneConflictPerActiveGroup ==
  (pc = "done" /\ Truthy(options.selectedWeek)) =>
    LET w == Val(options.selectedWeek)
        sched == lastResult.schedule
        conflicts == lastResult.conflicts
    IN /\ \A k \in 1..Len(sched) :
            LET d == sched[k].dayOfWeek
                p == sched[k].timeSlotId
                A == {m \in GroupAt(sched, d, p) : ActiveIn(w, sched[m].weeks)}
                at == ConflictsAt(conflicts, d, p)
            IN IF Cardinality(A) >= 2
               THEN /\ Cardinality(at) = 1
                    /\ \A c \in at :
                         /\ ItemRefs(conflicts[c].items) = A
                         /\ Len(conflicts[c].items) = Cardinality(A)
               ELSE at = {}
       /\ \A c \in 1..Len(conflicts) :
            \A i \in 1..Len(conflicts[c].items) :
              \E k \in 1..Len(sched) : sched[k] = conflicts[c].items[i]

\* Three courses at one weekday, one of them restricted to another week:
\* period 5 holds two items active in the target week, one of them without
\* a week list, and they are reported as one conflict.
C11_Witness ==
  /\ pc = "done" /\ Truthy(options.selectedWeek)
  /\ Len(courses) = 3
  /\ \E c \in 1..3 :
       ~ActiveIn(Val(options.selectedWeek), courses[c].fixedTimeSlots[1].weeks)
  /\ Len(lastResult.conflicts) = 1
  /\ Len(lastResult.conflicts[1].items) = 2
  /\ \E i \in 1..2 : ~IsDef(lastResult.conflicts[1].items[i].weeks)
  /\ \E i \in 1..2 : IsDef(lastResult.conflicts[1].items[i].weeks)

\* C12: when an exception is raised while a course is expanded or while the
\* conflicts are detected, generateSchedule still returns a result, with
\* success = false, a message and an empty schedule, whatever this.schedule
\* held when the exception was raised.
C12_ExceptionGivesFailedResult ==
  (pc = "done" /\ IsDef(thrown)) =>
    /\ lastResult # NoResult
    /\ lastResult.success = FALSE
    /\ Len(lastResult.message) > 0
    /\ lastResult.schedule = <<>>

\* The exception is raised at the third course after the first two have
\* produced items; the result carries none of them.
C12_Witness ==
  /\ pc = "done" /\ IsDef(thrown) /\ Val(thrown).at = 3
  /\ Len(algSchedule) >= 2
  /\ lastResult.schedule = <<>> /\ lastResult.success = FALSE

\* The number a run of digits writes in decimal.
RECURSIVE Decimal(_)
Decimal(digits) ==
  IF Len(digits) = 1 THEN DigitValue(digits[1])
  ELSE DigitValue(digits[1]) * 10 ^ (Len(digits) - 1) + Decimal(Tail(digits))

IsDigitRun(t) == t # <<>> /\ \A k \in 1..Len(t) : IsDigit(t[k])

\* The positions at which t splits into a run of digits, a dash and a run
\* of digits.
DashSplits(t) ==
  {k \in 1..Len(t) : /\ t[k] = Dash
                     /\ IsDigitRun(SubSeq(t, 1, k - 1))
                     /\ IsDigitRun(SubSeq(t, k + 1, Len(t)))}

\* The maximal runs of digits of a text, as <<first, last>> positions.
DigitRuns(t) ==
  {r \in (1..Len(t)) \X (1..Len(t)) :
     /\ r[1] <= r[2]
     /\ \A k \in r[1]..r[2] : IsDigit(t[k])
     /\ ~IsDigit(At(t, r[1] - 1)) /\ ~IsDigit(At(t, r[2] + 1))}

\* C16: parseWeekRange maps a text a-b-zhou to {start: a, end: b}, a text
\* that holds a single number a to {start: a, end: a}, and returns null
\* exactly when the text holds no digit.
C16_WeekRangeOfText ==
  pc = "done" =>
    /\ (parsed = Null) <=> (\A k \in 1..Len(text) : ~IsDigit(text[k]))
    /\ \A k \in DashSplits(SubSeq(text, 1, Len(text) - 1)) :
         text[Len(text)] = Zhou =>
           parsed = Def([start |-> Decimal(SubSeq(text, 1, k - 1)),
                         end |-> Decimal(SubSeq(text, k + 1, Len(text) - 1))])
    /\ \A r \in DigitRuns(text) :
         DigitRuns(text) = {r} =>
           parsed = Def([start |-> Decimal(SubSeq(text, r[1], r[2])),
                         end |-> Decimal(SubSeq(text, r[1], r[2]))])

\* The text 1-2-zhou parsed to {1, 2}.
C16_Witness ==
  /\ pc = "done"
  /\ text = <<"1", Dash, "2", Zhou>>
  /\ parsed = Def([start |-> 1, end |-> 2])

\* A period text: di, a run of digits or two runs around a dash, jie.
IsPeriodText(t) ==
  /\ Len(t) >= 3 /\ t[1] = Di /\ t[Len(t)] = Jie
  /\ LET inner == SubSeq(t, 2, Len(t) - 1)
     IN IsDigitRun(inner) \/ DashSplits(inner) # {}

\* The decimal strings of a, a + 1, ..., b.
IdsFromTo(a, b) == [i \in 1..(b - a + 1) |-> ToString(a + i - 1)]

\* C17: parseTimeSlots maps di-a-b-jie to the decimal strings of a..b in
\* ascending order and di-a-jie to [a], returns the empty list when no part
\* of the text is a period text, and the empty list when a > b.
C17_PeriodsOfText ==
  pc = "done" =>
    /\ IsPeriodText(text) =>
         LET inner == SubSeq(text, 2, Len(text) - 1) IN
         /\ IsDigitRun(inner) => parsed = <<ToString(Decimal(inner))>>
         /\ \A k \in DashSplits(inner) :
              LET a == Decimal(SubSeq(inner, 1, k - 1))
                  b == Decimal(SubSeq(inner, k + 1, Len(inner)))
              IN parsed = IF a > b THEN <<>> ELSE IdsFromTo(a, b)
    /\ (\A i \in 1..Len(text) : \A j \in i..Len(text) :
          ~IsPeriodText(SubSeq(text, i, j))) => parsed = <<>>

\* The text di-1-2-jie parsed to the periods 1 and 2.
C17_Witness ==
  /\ pc = "done"
  /\ text = <<Di, "1", Dash, "2", Jie>>
  /\ parsed = <<"1", "2">>

Normalized(range) == range.start <= range.end

\* C13: every week range the parser constructs has start <= end: the range
\* parseTimeLine reads from the week prefix (by parseWeekRange) and every
\* range in the week lists of the slots it returns.
C13_RangesNormalized ==
  pc = "done" =>
    /\ IsDef(parsed.weeks) => Normalized(Val(parsed.weeks))
    /\ \A k \in 1..Len(parsed.timeSlots) :
         IsDef(parsed.timeSlots[k].weeks) =>
           \A i \in 1..Len(Val(parsed.timeSlots[k].weeks)) :
             Normalized(Val(parsed.timeSlots[k].weeks)[i])

\* A weekday with its periods: xing-qi-X or zhou-X, white space or none, a
\* period text.  The value is the set of the lengths of the weekday token.
DayTokenLens(t) ==
  {n \in {2, 3} :
     /\ n < Len(t)
     /\ SubSeq(t, 1, n) \in DOMAIN DAY_MAP
     /\ \E m \in n..(Len(t) - 3) :
          /\ \A k \in (n + 1)..m : t[k] \in WhiteSpace
          /\ IsPeriodText(SubSeq(t, m + 1, Len(t)))}

\* The occurrences of a weekday with its periods in a text, as
\* <<first, last>> positions.
Occurrences(t) ==
  {o \in (1..Len(t)) \X (1..Len(t)) :
     o[1] < o[2] /\ DayTokenLens(SubSeq(t, o[1], o[2])) # {}}

\* The weekday and the period ids an occurrence names.
DayOf(occ) ==
  DAY_MAP[SubSeq(occ, 1, CHOOSE n \in DayTokenLens(occ) : TRUE)]

IdsOf(occ) ==
  LET from == CHOOSE p \in 1..Len(occ) : occ[p] = Di
      inner == SubSeq(occ, from + 1, Len(occ) - 1)
  IN IF IsDigitRun(inner)
     THEN <<ToString(Decimal(inner))>>
     ELSE LET k == CHOOSE k \in DashSplits(inner) : TRUE
              a == Decimal(SubSeq(inner, 1, k - 1))
              b == Decimal(SubSeq(inner, k + 1, Len(inner)))
          IN IF a > b THEN <<>> ELSE IdsFromTo(a, b)

\* The week prefix of a line: a number or two numbers around a dash, zhou
\* or not, up to the first comma.  The value is the range it names, or
\* undefined.
PrefixRange(t) ==
  LET commas == {k \in 1..Len(t) : t[k] \in {Comma, WideComma}} IN
  IF commas = {} THEN Undefined
  ELSE LET k == MinOf(commas)
           body == IF At(t, k - 1) = Zhou THEN SubSeq(t, 1, k - 2)
                   ELSE SubSeq(t, 1, k - 1)
       IN IF IsDigitRun(body)
          THEN Def([start |-> Decimal(body), end |-> Decimal(body)])
          ELSE IF DashSplits(body) # {}
               THEN LET d == CHOOSE d \in DashSplits(body) : TRUE
                    IN Def([start |-> Decimal(SubSeq(body, 1, d - 1)),
                            end |-> Decimal(SubSeq(body, d + 1, Len(body)))])
               ELSE Undefined

\* slots holds one slot for every occurrence of scanned with a non-empty
\* list of period ids, in textual order, each with the weekday and the
\* period ids of its occurrence, the week prefix range of the line as a
\* single-element list, and the first parenthesized substring of the line.
OneSlotPerOccurrence(slots, scanned, line) ==
  LET occs == {o \in Occurrences(scanned) :
                 IdsOf(SubSeq(scanned, o[1], o[2])) # <<>>}
  IN /\ Len(slots) = Cardinality(occs)
     /\ \A o \in occs :
          LET slot == slots[Cardinality({u \in occs : u[1] <= o[1]})]
              occ == SubSeq(scanned, o[1], o[2])
          IN /\ slot.dayOfWeek = DayOf(occ)
             /\ slot.dayOfWeek \in 1..7
             /\ slot.timeSlotIds = IdsOf(occ)
             /\ slot.weeks = IF IsDef(PrefixRange(line))
                              THEN Def(<<Val(PrefixRange(line))>>)
                              ELSE Undefined
             /\ slot.location = parseLocation(line)

\* C14 as stated: parseTimeLine returns one slot for every occurrence, in
\* the line, of a weekday followed by a non-empty period range.
C14_SlotPerLineOccurrence ==
  pc = "done" => OneSlotPerOccurrence(parsed.timeSlots, Trim(text), Trim(text))

\* C14: parseTimeLine returns one slot for every occurrence of a weekday
\* followed by a non-empty period range in the time content of the line
\* (the trimmed line without its week prefix and its first parenthesized
\* substring), in textual order, each with its weekday in 1..7, its period
\* ids, the week prefix range of the line as a single-element list
\* (undefined without a prefix) and the first parenthesized substring of the
\* line as location (undefined without one); an occurrence with an empty
\* period range yields no slot.
C14_SlotPerContentOccurrence ==
  pc = "done" =>
    OneSlotPerOccurrence(parsed.timeSlots, TimeContent(Trim(text)), Trim(text))

\* A week prefix, two weekdays with periods and a location: two slots; and
\* an occurrence with the larger period first is skipped.
C14_Witness ==
  /\ pc = "done"
  /\ text = <<"1", Dash, "2", Zhou, WideComma>> \o
            <<Xing, Qi, "yi", Di, "5", Dash, "6", Jie>> \o
            <<Zhou, "san", Space, Di, "5", Jie>> \o
            <<Open>> \o B411 \o <<Close>>
  /\ Len(parsed.timeSlots) = 2
  /\ parsed.timeSlots[1] =
       [dayOfWeek |-> 1, timeSlotIds |-> <<"5", "6">>,
        weeks |-> Def(<<[start |-> 1, end |-> 2]>>), location |-> Def(B411)]
  /\ parsed.timeSlots[2].dayOfWeek = 3

\* The slots parseTimeLine returns for the non-blank lines among ls[k..],
\* in line order.
RECURSIVE SlotsOfLines(_, _)
SlotsOfLines(ls, k) ==
  IF k > Len(ls) THEN <<>>
  ELSE (IF \E i \in 1..Len(ls[k]) : ls[k][i] \notin WhiteSpace
        THEN parseTimeLine(ls[k]).timeSlots ELSE <<>>) \o
       SlotsOfLines(ls, k + 1)

\* C15: parseCourseTime of a block is deduplicateTimeSlots applied to the
\* slots parseTimeLine returns for the non-blank lines of the block, in
\* line order; a block that is empty or all white space gives the empty
\* list.
C15_BlockIsDedupOfLines ==
  pc = "done" =>
    /\ parsed = deduplicateTimeSlots(SlotsOfLines(lines, 1))
    /\ (\A i \in 1..Len(text) : text[i] \in WhiteSpace) => parsed = <<>>

\* Three lines broken by CR LF and by LF, the first and the last naming the
\* same slot in weeks 1-2 and in week 3, a blank line between them: one
\* slot with weeks 1-3.
C15_Witness ==
  /\ pc = "done"
  /\ Len(lines) = 3
  /\ lines[2] = <<Space, Tab>>
  /\ \E i \in 1..Len(text) : text[i] = CR
  /\ Len(parseTimeLine(lines[1]).timeSlots) = 1
  /\ Len(parseTimeLine(lines[3]).timeSlots) = 1
  /\ Len(parsed) = 1
  /\ parsed[1].weeks = Def(<<[start |-> 1, end |-> 3]>>)

IsBlank(line) == \A k \in 1..Len(line) : line[k] \in WhiteSpace

\* The position of the first non-blank line of a block, 0 without one.
FirstLine(ls) ==
  IF \A i \in 1..Len(ls) : IsBlank(ls[i]) THEN 0
  ELSE MinOf({i \in 1..Len(ls) : ~IsBlank(ls[i])})

\* The number of tab-separated fields of a line.
TabFields(line) == Cardinality({k \in 1..Len(line) : line[k] = Tab}) + 1

\* The fields of the first non-blank line, each trimmed.
FirstFields(ls) == MapTrim(SplitOn(Trim(ls[FirstLine(ls)]), 1, <<>>, {Tab}))

\* The lines of a record that are its own time text: the time fields of
\* its first line and the following lines without a tab.
OwnTimeLines(ls) ==
  (IF Len(FirstFields(ls)) > 6
   THEN {JoinTexts(SubSeq(FirstFields(ls), 7, Len(FirstFields(ls))), <<Tab>>)}
   ELSE {}) \cup
  {ls[i] : i \in {j \in (FirstLine(ls) + 1)..Len(ls) : TabFields(ls[j]) = 1}}

\* C18: the time slots parseCourseInfo returns for a record come from the
\* time fields of its first line and from the following lines without a
\* tab only: every returned slot has the weekday and the periods of a slot
\* written on one of those lines, none of a slot written on a following
\* line with a tab.
C18_NoSlotFromTabLine ==
  (pc = "done" /\ IsDef(parsed.course)) =>
    \A k \in 1..Len(Val(parsed.course).timeSlots) :
      \E line \in OwnTimeLines(lines) :
        \E j \in 1..Len(parseTimeLine(line).timeSlots) :
          /\ parseTimeLine(line).timeSlots[j].dayOfWeek =
               Val(parsed.course).timeSlots[k].dayOfWeek
          /\ parseTimeLine(line).timeSlots[j].timeSlotIds =
               Val(parsed.course).timeSlots[k].timeSlotIds

\* C19: parseCourseInfo raises an error, and returns no course, exactly
\* when the block has no non-blank line or its first non-blank line has
\* fewer than 4 tab-separated fields.
C19_RaisesIffTooFewFields ==
  pc = "done" =>
    /\ IsDef(parsed.raised) <=>
         (FirstLine(lines) = 0 \/ TabFields(lines[FirstLine(lines)]) < 4)
    /\ IsDef(parsed.raised) <=> ~IsDef(parsed.course)

\* A value read from a field: the field, or the text the code puts in
\* place of an empty field.
ReadFrom(value, field, unknown) ==
  value = field \/ (field = EmptyText /\ value = unknown)

\* C20: in every accepted block the second field of the first line alone
\* chooses the layout: a number there gives credits = field 2, department =
\* field 4, teachers = field 5, campus = field 6; anything else gives
\* teachers = field 2, department = field 3, campus = field 4 and credits
\* from field 6.
C20_LayoutBySecondField ==
  (pc = "done" /\ IsDef(parsed.course)) =>
    LET f == FirstFields(lines)
        course == Val(parsed.course)
    IN IF IsNumber(f[2])
       THEN /\ course.credits = Def(Decimal(f[2]))
            /\ course.department = f[4]
            /\ Len(f) >= 5 => course.teachers = SplitNames(f[5])
            /\ Len(f) >= 6 => course.campus = f[6]
       ELSE /\ \/ course.teachers = SplitNames(f[2])
               \/ f[2] = EmptyText /\ course.teachers = <<UnknownTeacher>>
            /\ ReadFrom(course.department, f[3], UnknownDepartment)
            /\ ReadFrom(course.campus, f[4], UnknownCampus)
            /\ \A r \in (IF Len(f) >= 6 THEN DigitRuns(f[6]) ELSE {}) :
                 (\A u \in DigitRuns(f[6]) : r[1] <= u[1]) =>
                   course.credits = Def(Decimal(SubSeq(f[6], r[1], r[2])))

----------------------------------------------------------------------------
(* C21 *)

\* The (weekday, period) pair a conflict concerns: that of its first item.
PairOf(conflict) ==
  <<conflict.items[1].dayOfWeek, conflict.items[1].timeSlotId>>

\* C21: in every result of generateSchedule, under any options, each
\* conflict lists at least two items, all items of one conflict have the
\* same dayOfWeek and the same timeSlotId, every listed item is an item of
\* the returned schedule, no two conflicts concern the same (weekday,
\* period), and no item is listed in two conflicts.
C21_ConflictsPerPair ==
  pc = "done" =>
    LET conflicts == lastResult.conflicts IN
    /\ \A m \in 1..Len(conflicts) :
         LET items == conflicts[m].items IN
         /\ Len(items) >= 2
         /\ \A k \in 1..Len(items) :
              /\ <<items[k].dayOfWeek, items[k].timeSlotId>>
                   = PairOf(conflicts[m])
              /\ Includes(lastResult.schedule, items[k])
    /\ \A m, n \in 1..Len(conflicts) :
         m # n =>
           /\ PairOf(conflicts[m]) # PairOf(conflicts[n])
           /\ \A k \in 1..Len(conflicts[m].items) :
                ~Includes(conflicts[n].items, conflicts[m].items[k])

\* A result with conflicts at two periods of one weekday, one of them
\* listing three items.
C21_Witness ==
  /\ pc = "done"
  /\ Len(lastResult.conflicts) >= 2
  /\ \E m, n \in 1..Len(lastResult.conflicts) :
       /\ Len(lastResult.conflicts[m].items) = 3
       /\ PairOf(lastResult.conflicts[m])[1] = PairOf(lastResult.conflicts[n])[1]
       /\ PairOf(lastResult.conflicts[m])[2] # PairOf(lastResult.conflicts[n])[2]

----------------------------------------------------------------------------
(* C22 *)

\* C22: deduplicateTimeSlots is idempotent and leaves its argument
\* untouched: applied to its own output it returns a list equal to that
\* output, and after each call the array handed to it and each of its slots
\* (weeks list and ranges included) have the values they had before.
C22_IdempotentAndPure ==
  /\ [](pc = "fixed" => fixedTimeSlots = deduped)
  /\ [][/\ DeduplicateTimeSlots => timeSlots' = timeSlots
        /\ HandleAutoFixDuplicates => deduped' = deduped]_vars

\* Three slots of one key were merged into one slot whose weeks differ from
\* those of the first, and the result went through the second call.
C22_Witness ==
  /\ pc = "fixed"
  /\ Len(timeSlots) = 3
  /\ Len(fixedTimeSlots) = 1
  /\ HasWeeks(fixedTimeSlots[1])
  /\ fixedTimeSlots[1].weeks # timeSlots[1].weeks

----------------------------------------------------------------------------
(* C23 *)

\* C23: with a target week range [s, e] and no single target week, every
\* reported conflict contains two items that are both active in a common
\* week w with s <= w <= e.
C23_ConflictsInsideRange ==
  (pc = "done" /\ ~IsDef(options.selectedWeek) /\ IsDef(options.weekRange)) =>
    LET target == Val(options.weekRange) IN
    \A m \in 1..Len(lastResult.conflicts) :
      LET items == lastResult.conflicts[m].items IN
      \E i, j \in 1..Len(items) :
        /\ i # j
        /\ \E w \in target.start..target.end :
             ActiveIn(w, items[i].weeks) /\ ActiveIn(w, items[j].weeks)

----------------------------------------------------------------------------
(* C24 *)

\* A stored course is the course a form or an importer handed over.
IsStoredFrom(stored, course) ==
  /\ stored.teacherId = course.teacherId
  /\ stored.location = course.location
  /\ stored.fixedTimeSlots = course.fixedTimeSlots

\* C24: after handleImportCourses is called with a batch of k >= 1 parsed
\* courses, the stored courses are the courses stored before the call
\* followed by the k imported courses.
C24_ImportStoresAll ==
  [][\A importedCourses \in Batches :
       HandleImportCourses(importedCourses) =>
         /\ Len(courses') = Len(courses) + Len(importedCourses)
         /\ SubSeq(courses', 1, Len(courses)) = courses
         /\ \A k \in 1..Len(importedCourses) :
              IsStoredFrom(courses'[Len(courses) + k], importedCourses[k])]_vars

----------------------------------------------------------------------------
(* C25 *)

\* A stored course has this id.
IsCourseId(id) == \E c \in 1..Len(courses) : courses[c].id = id

\* C25: in every reachable state of the application every item of the
\* stored schedule has a courseId that identifies a stored course.
C25_ItemsReferToCourses ==
  \A k \in 1..Len(schedule) : IsCourseId(schedule[k].courseId)

----------------------------------------------------------------------------
(* C26 *)

\* C26: when the result of a generation is stored after its delay, the
\* stored schedule is the one generated from the courses as they are stored
\* at that moment, and none of its items belongs to a course that has been
\* deleted since the generation was started.
C26_StoredFromCurrentCourses ==
  [][\A i \in 1..Len(pending) :
       (GenerateAfterDelay(i) /\ lastResult'.success) =>
         /\ schedule' = generateSchedule(courses, pending[i].options).schedule
         /\ \A k \in 1..Len(schedule') :
              \E c \in 1..Len(courses') :
                courses'[c].id = schedule'[k].courseId]_vars

----------------------------------------------------------------------------
(* C27, C28 *)

\* rest is list without the elements at the indices outside keep, the
\* others being the same elements in the same order.
IsRest(rest, list, keep) ==
  /\ Len(rest) = Cardinality(keep)
  /\ \A k \in keep : rest[Cardinality({j \in keep : j <= k})] = list[k]

\* The ids of the stored teachers or courses.
StoredIds(list) == {list[k].id : k \in 1..Len(list)}

\* C27: after handleDeleteCourse(id) no stored course has that id and no
\* item of the stored schedule has it as courseId; the other courses and the
\* schedule items of the other courses are the ones stored before, unchanged
\* and in the same order.
C27_DeleteCourseCascades ==
  [][\A id \in StoredIds(courses) :
       HandleDeleteCourse(id) =>
         /\ \A c \in 1..Len(courses') : courses'[c].id # id
         /\ \A k \in 1..Len(schedule') : schedule'[k].courseId # id
         /\ IsRest(courses', courses,
                   {c \in 1..Len(courses) : courses[c].id # id})
         /\ coursesRaw' = courses'
         /\ IsRest(schedule', schedule,
                   {k \in 1..Len(schedule) : schedule[k].courseId # id})]_vars

\* The predefined schedule was stored with an item of course 1 and one of
\* course 2, and course 1 has been deleted since: the item of course 2 is
\* what is left of the schedule.
C27_Witness ==
  /\ pc = "handleDeleteCourse"
  /\ "1" \notin StoredIds(courses) /\ "2" \in StoredIds(courses)
  /\ schedule = <<predefinedSchedule[2]>>

\* C28: after handleDeleteTeacher(id) no stored teacher has that id and no
\* stored course has it as teacherId; the other teachers and the courses of
\* the other teachers are the ones stored before, unchanged and in the same
\* order.
C28_DeleteTeacherCascades ==
  [][\A id \in StoredIds(teachers) :
       HandleDeleteTeacher(id) =>
         /\ \A t \in 1..Len(teachers') : teachers'[t].id # id
         /\ \A c \in 1..Len(courses') : courses'[c].teacherId # id
         /\ IsRest(teachers', teachers,
                   {t \in 1..Len(teachers) : teachers[t].id # id})
         /\ IsRest(courses', courses,
                   {c \in 1..Len(courses) : courses[c].teacherId # id})
         /\ coursesRaw' = courses']_vars

\* Teacher 1 has been deleted while a course of theirs and a course of
\* teacher 2 were stored: teacher 2 and their course are left.
C28_Witness ==
  /\ pc = "handleDeleteTeacher"
  /\ StoredIds(teachers) = {"2"}
  /\ Len(courses) = 1 /\ courses[1].teacherId = "2"

----------------------------------------------------------------------------
(* C29 *)

\* C29: handleScheduleGenerated, called with the result of a generation or
\* with the predefined schedule, leaves the stored schedule and the active
\* tab as they are when the result has success = false; when it has
\* success = true the stored schedule becomes result.schedule, nothing of
\* the schedule stored before being kept, and the schedule tab is active.
C29_StoresSuccessOnly ==
  [][\A i \in 1..Len(pending) :
       (GenerateAfterDelay(i) \/ PredefinedAfterDelay(i)) =>
         IF lastResult'.success
         THEN schedule' = lastResult'.schedule /\ activeTab' = "schedule"
         ELSE schedule' = schedule /\ activeTab' = activeTab]_vars

\* A generated schedule has been stored and shown, and the item that was in
\* the store before is not part of it.
C29_Witness ==
  /\ pc = "handleScheduleGenerated"
  /\ lastResult.success /\ lastResult.schedule # <<>>
  /\ algSchedule = lastResult.schedule
  /\ schedule = lastResult.schedule /\ activeTab = "schedule"
  /\ \A k \in 1..Len(schedule) : schedule[k] # predefinedSchedule[1]

====
